---- MODULE Spec2Model ----
(***************************************************************************)
(* The arrival-card issuance workflow of src/server.js: the handler of     *)
(* POST /api/create, its three zod schemas, the collision-retry allocator  *)
(* of arrival-card numbers, and the Supabase tables and bucket it writes.  *)
(* Every await of the handler is one action: the collaborator executes the *)
(* call and the handler runs on to the next await (or to its response).    *)
(***************************************************************************)
EXTENDS Integers, Sequences, FiniteSets, TLC

(***************************************************************************)
(* Bounds of the model.                                                    *)
(***************************************************************************)
\* concurrent POST /api/create requests
NumReqs == 2
\* distinct values Math.random() can return in the model
NumCards == 2
\* distinct values uuidv4() can return in the model
NumUuids == 2
\* cards issued before the request of SpecOne arrives
MaxEarlier == 2

Reqs == 1..NumReqs

(***************************************************************************)
(* JSON values of a request body.  A field value is a record               *)
(* [t |-> its JavaScript type, s |-> its text when it is a string]; a key  *)
(* that is absent from an object reads as undefined.                       *)
(***************************************************************************)
Undef == [t |-> "undefined", s |-> ""]
Null == [t |-> "null", s |-> ""]
Num == [t |-> "number", s |-> ""]
Str(s) == [t |-> "string", s |-> s]

FieldValues == {Undef, Null, Num, Str(""), Str("x")}

\* personalInfoSchema: for each key, the checks zod applies to it
personalInfoSchema ==
  [ family_name          |-> [min |-> 1, optional |-> FALSE, nullable |-> FALSE],
    first_name           |-> [min |-> 1, optional |-> FALSE, nullable |-> FALSE],
    middle_name          |-> [min |-> 0, optional |-> TRUE,  nullable |-> FALSE],
    passport_no          |-> [min |-> 1, optional |-> FALSE, nullable |-> FALSE],
    selected_nationality |-> [min |-> 0, optional |-> FALSE, nullable |-> FALSE],
    occupation           |-> [min |-> 0, optional |-> FALSE, nullable |-> FALSE],
    gender               |-> [min |-> 0, optional |-> FALSE, nullable |-> FALSE],
    visa_no              |-> [min |-> 0, optional |-> TRUE,  nullable |-> FALSE],
    selected_country     |-> [min |-> 0, optional |-> FALSE, nullable |-> FALSE],
    selected_city        |-> [min |-> 0, optional |-> FALSE, nullable |-> FALSE],
    phone_no_code        |-> [min |-> 0, optional |-> FALSE, nullable |-> FALSE],
    phone_no             |-> [min |-> 0, optional |-> FALSE, nullable |-> FALSE],
    date_of_birth        |-> [min |-> 0, optional |-> FALSE, nullable |-> FALSE] ]

\* tripAccommodationSchema
tripAccommodationSchema ==
  [ date_of_arrival                   |-> [min |-> 0, optional |-> FALSE, nullable |-> FALSE],
    country_boarded                   |-> [min |-> 0, optional |-> FALSE, nullable |-> FALSE],
    purpose_of_travel                 |-> [min |-> 0, optional |-> FALSE, nullable |-> FALSE],
    purpose_of_travel_other           |-> [min |-> 0, optional |-> TRUE,  nullable |-> TRUE],
    mode_of_travel_arrival            |-> [min |-> 0, optional |-> FALSE, nullable |-> FALSE],
    mode_of_transport_arrival         |-> [min |-> 0, optional |-> FALSE, nullable |-> FALSE],
    mode_of_transport_arrival_other   |-> [min |-> 0, optional |-> TRUE,  nullable |-> TRUE],
    flight_vehicle_no_arrival         |-> [min |-> 0, optional |-> FALSE, nullable |-> FALSE],
    date_of_departure                 |-> [min |-> 0, optional |-> TRUE,  nullable |-> TRUE],
    mode_of_travel_departure          |-> [min |-> 0, optional |-> TRUE,  nullable |-> TRUE],
    mode_of_transport_departure       |-> [min |-> 0, optional |-> TRUE,  nullable |-> TRUE],
    mode_of_transport_departure_other |-> [min |-> 0, optional |-> TRUE,  nullable |-> TRUE],
    flight_vehicle_no_departure       |-> [min |-> 0, optional |-> TRUE,  nullable |-> TRUE],
    type_of_accommodation             |-> [min |-> 0, optional |-> FALSE, nullable |-> FALSE],
    type_other                        |-> [min |-> 0, optional |-> TRUE,  nullable |-> TRUE],
    province                          |-> [min |-> 0, optional |-> FALSE, nullable |-> FALSE],
    district_area                     |-> [min |-> 0, optional |-> FALSE, nullable |-> FALSE],
    sub_district                      |-> [min |-> 0, optional |-> FALSE, nullable |-> FALSE],
    post_code                         |-> [min |-> 0, optional |-> FALSE, nullable |-> FALSE],
    address                           |-> [min |-> 0, optional |-> FALSE, nullable |-> FALSE] ]

PersonalFields == DOMAIN personalInfoSchema
TripFields == DOMAIN tripAccommodationSchema
\* a key no schema declares, which a client may send all the same
UndeclaredKey == "role"

\* z.string() that ignores .min(1)
StringIssuesNoMin(check, v) ==
  IF v.t = "undefined"
    THEN IF check.optional THEN << >> ELSE << "Required" >>
    ELSE IF v.t = "null" /\ check.nullable THEN << >>
    ELSE IF v.t # "string" THEN << "Expected string" >>
    ELSE << >>

\* the issues z.string() (with .min, .optional, .nullable) raises on value v
StringIssues(check, v) ==
  IF v.t = "undefined"
    THEN IF check.optional THEN << >> ELSE << "Required" >>
    ELSE IF v.t = "null" /\ check.nullable THEN << >>
    ELSE IF v.t # "string" THEN << "Expected string" >>
    ELSE IF check.min >= 1 /\ v.s = ""
      THEN << "String must contain at least 1 character(s)" >>
      ELSE << >>

\* the empty object {} as a field-error map: no key has a message
NoFieldErrors(schema) == [f \in DOMAIN schema |-> << >>]

\* z.object(schema).passthrough(): the undeclared keys stay in data
SafeParsePassthrough(schema, section) ==
  IF section.t # "object"
    THEN [success |-> FALSE,
          formErrors |-> << "Required" >>,
          fieldErrors |-> NoFieldErrors(schema),
          data |-> [f \in DOMAIN schema |-> Undef]]
    ELSE LET issues == [f \in DOMAIN schema |-> StringIssues(schema[f], section.f[f])]
         IN [success |-> \A f \in DOMAIN schema : issues[f] = << >>,
             formErrors |-> << >>,
             fieldErrors |-> issues,
             data |-> section.f]

\* z.object(schema).safeParse(section): a section that is no object fails with
\* an issue at the root (a form error, no field error); an object is checked
\* key by key and its undeclared keys are dropped from data
SafeParse(schema, section) ==
  IF section.t # "object"
    THEN [success |-> FALSE,
          formErrors |-> << "Required" >>,
          fieldErrors |-> NoFieldErrors(schema),
          data |-> [f \in DOMAIN schema |-> Undef]]
    ELSE LET issues == [f \in DOMAIN schema |-> StringIssues(schema[f], section.f[f])]
         IN [success |-> \A f \in DOMAIN schema : issues[f] = << >>,
             formErrors |-> << >>,
             fieldErrors |-> issues,
             data |-> [f \in DOMAIN schema |-> section.f[f]]]

\* healthSchema without .min(1): an empty list passes
HealthIssuesNoMin(v) ==
  IF v.t = "undefined" THEN << "Required" >>
  ELSE IF v.t # "array" THEN << "Expected array" >>
  ELSE IF \E i \in 1..Len(v.a) : v.a[i].t # "string" THEN << "Expected string" >>
  ELSE << >>

\* healthSchema: countries_visited is z.array(z.string()).min(1, message)
HealthIssues(v) ==
  IF v.t = "undefined" THEN << "Required" >>
  ELSE IF v.t # "array" THEN << "Expected array" >>
  ELSE IF \E i \in 1..Len(v.a) : v.a[i].t # "string" THEN << "Expected string" >>
  ELSE IF Len(v.a) < 1 THEN << "Please select at least one country" >>
  ELSE << >>

NoHealthErrors == [countries_visited |-> << >>]

SafeParseHealth(section) ==
  IF section.t # "object"
    THEN [success |-> FALSE,
          formErrors |-> << "Required" >>,
          fieldErrors |-> NoHealthErrors]
    ELSE LET issues == HealthIssues(section.countries_visited)
         IN [success |-> issues = << >>,
             formErrors |-> << >>,
             fieldErrors |-> [countries_visited |-> issues]]

\* validationX.error?.flatten().fieldErrors || {}
FieldErrorsOrEmpty(validation, empty) ==
  IF validation.success THEN empty ELSE validation.fieldErrors

(***************************************************************************)
(* Request bodies.                                                         *)
(***************************************************************************)
PersonalKeys == PersonalFields \cup {UndeclaredKey}
TripKeys == TripFields \cup {UndeclaredKey}

Object(fields) == [t |-> "object", f |-> fields]
\* a section that is absent from the body, or sent as a string
NonObject(keys, type) == [t |-> type, f |-> [k \in keys |-> Undef]]

\* every required key a non-empty string, every optional key absent
CompleteFields(schema, keys) ==
  [k \in keys |->
     IF k \in DOMAIN schema /\ ~schema[k].optional THEN Str("x") ELSE Undef]

ValidPersonal == Object(CompleteFields(personalInfoSchema, PersonalKeys))
ValidTrip == Object(CompleteFields(tripAccommodationSchema, TripKeys))

Countries(list) == [t |-> "object", countries_visited |-> [t |-> "array", a |-> list]]
ValidHealth == Countries(<< Str("US") >>)
EmptyHealth == Countries(<< >>)
NoHealth == [t |-> "undefined", countries_visited |-> [t |-> "undefined", a |-> << >>]]

ValidBody == [personalInfo |-> ValidPersonal, tripInfo |-> ValidTrip, health |-> ValidHealth]
NoBody == [personalInfo |-> NonObject(PersonalKeys, "undefined"),
           tripInfo |-> NonObject(TripKeys, "undefined"),
           health |-> NoHealth]

\* the bodies the concurrent requests of the workflow model send
Bodies == {ValidBody, [ValidBody EXCEPT !.health = EmptyHealth]}

\* valid bodies with each of visa_no and the departure fields absent, null
\* (where the schema allows it) or present
RenderBodies ==
  {[ValidBody EXCEPT
      !.personalInfo.f["visa_no"] = visa,
      !.tripInfo.f["date_of_departure"] = date,
      !.tripInfo.f["mode_of_travel_departure"] = travel,
      !.tripInfo.f["mode_of_transport_departure"] = transport,
      !.tripInfo.f["flight_vehicle_no_departure"] = flight] :
     visa \in {Undef, Str(""), Str("x")},
     date \in {Undef, Null, Str("2025-03-09")},
     travel \in {Undef, Null, Str("x")},
     transport \in {Undef, Null, Str("x")},
     flight \in {Undef, Null, Str("x")}}

\* the bodies the request under validation sends: one personal key changed to
\* any value, or the section not an object, with each kind of other section
PersonalInputs ==
  {NonObject(PersonalKeys, "undefined"), NonObject(PersonalKeys, "string")}
    \cup {Object([ValidPersonal.f EXCEPT ![k] = v]) : k \in PersonalKeys, v \in FieldValues}
TripInputs ==
  {ValidTrip, NonObject(TripKeys, "undefined"),
   Object([ValidTrip.f EXCEPT !["date_of_arrival"] = Undef])}
HealthInputs == {ValidHealth, EmptyHealth, NoHealth}
ValidationBodies ==
  [personalInfo : PersonalInputs, tripInfo : TripInputs, health : HealthInputs]

(***************************************************************************)
(* Texts of the errors the collaborators and the handler raise.            *)
(***************************************************************************)
PGRST116 == "PGRST116"
\* the code of any other error of a lookup
OtherErrorCode == "08006"
StoreErrorText == "connection refused"
DuplicateKeyText == "duplicate key value violates unique constraint"
ObjectExistsText == "The resource already exists"
RenderErrorText == "render failed"
\* the message of the TypeError of a method call on undefined or null
TypeErrorText == "Cannot read properties of undefined"
ExhaustedText == "Failed to generate unique arrival card number after maximum attempts"
VerifyPrefix == "Failed to verify arrival card number: "
UploadPrefix == "Failed to upload PDF: "
InsertPrefix == "Failed to insert into database: "

maxAttempts == 10

\* the values Math.random() returns in the model, as numerators over RandomDen:
\* NumCards points of [0, 1), the smallest and the largest included
RandomDen == 90000
Randoms == {(i * (RandomDen - 1)) \div (NumCards - 1) : i \in 0..(NumCards - 1)}

\* Math.floor(10000 + Math.random() * 90000).toString()
\* Math.floor(x * 90000) for x = random / RandomDen, in steps that stay below 2^31
Floor90000(random) ==
  LET q == (random * 300) \div RandomDen
      rest == (random * 300) % RandomDen
  IN q * 300 + (rest * 300) \div RandomDen

\* a draw without the offset: Math.floor(Math.random() * 100000)
CardNoValueNoOffset(random) ==
  LET q == (random * 1000) \div RandomDen
      rest == (random * 1000) % RandomDen
  IN q * 100 + (rest * 100) \div RandomDen

\* Math.floor(10000 + Math.random() * 90000)
CardNoValue(random) == 10000 + Floor90000(random)

\* Number.prototype.toString(): the decimal digits of a natural number
RECURSIVE Decimal(_)
Decimal(n) ==
  IF n < 10 THEN << n >> ELSE Append(Decimal(n \div 10), n % 10)

DrawCardNo(random) == ToString(CardNoValue(random))

Uuids == 1..NumUuids
\* `${uniqueId}.pdf`
FileName(id) == << id, ".pdf" >>
\* supabase.storage.from("pdfs").getPublicUrl(fileName).data.publicUrl
PublicUrl(fileName) == << "/storage/v1/object/public/pdfs/" >> \o fileName

(***************************************************************************)
(* State.                                                                  *)
(***************************************************************************)
VARIABLES
  profiles,            \* table profiles: the rows inserted, in order
  travel_information,  \* table travel_information
  entry_form,          \* table entry_form
  pdfs,                \* bucket pdfs: the objects uploaded
  uniqueConstraint,    \* whether the schema has UNIQUE on entry_form.arrival_card_no
  pc,                  \* per request: "idle", the call it awaits, or "done"
  body,                \* per request: req.body
  local,               \* per request: the handler's local variables
  lookups,             \* per request: the uniqueness lookups started so far
  callCount,           \* per request and step: the calls of the step started so far
  pending,             \* per request: the steps started that have not returned
  completed,           \* per request: the steps that returned without error
  res,                 \* per request: the responses sent
  variant,             \* the handler deployed: "memory" or "tempfile"
  disk,                \* the files in ./pdfs on the server's disk
  input,               \* the argument of the pure function under study
  output               \* its result

vars == << profiles, travel_information, entry_form, pdfs, uniqueConstraint, pc,
           body, local, lookups, callCount, pending, completed, res, variant, disk,
           input, output >>

store == << profiles, travel_information, entry_form, pdfs >>

\* the handler's local variables before their assignment
NoLocals ==
  [profileData |-> << >>,   \* the rows the profile insert returned
   trData |-> << >>,        \* the rows the travel insert returned
   uniqueId |-> 0,          \* the document identifier (0: not drawn)
   arrivalCardNo |-> "",    \* the candidate card number ("": not drawn)
   isUnique |-> FALSE,
   attempts |-> 0,
   chunks |-> << >>,        \* the data the document emitted so far
   listening |-> FALSE,     \* whether the end and error listeners of the await are set
   pdfBuffer |-> << >>]     \* Buffer.concat(chunks)

\* no collaborator was called yet
NoCalls ==
  [step \in {"profile", "travel", "lookup", "qr_update", "qr_buffer", "doc_end",
             "upload", "entry"} |-> 0]

Init ==
  /\ profiles = << >>
  /\ travel_information = << >>
  /\ entry_form = << >>
  /\ pdfs = {}
  /\ uniqueConstraint \in BOOLEAN
  /\ pc = [r \in Reqs |-> "idle"]
  /\ body = [r \in Reqs |-> NoBody]
  /\ local = [r \in Reqs |-> NoLocals]
  /\ lookups = [r \in Reqs |-> 0]
  /\ callCount = [r \in Reqs |-> NoCalls]
  /\ pending = [r \in Reqs |-> {}]
  /\ completed = [r \in Reqs |-> {}]
  /\ res = [r \in Reqs |-> << >>]
  /\ variant = "memory"
  /\ disk = {}
  /\ input = << >>
  /\ output = << >>

(***************************************************************************)
(* The order of the handler's steps.                                       *)
(***************************************************************************)
\* a handler that inserts the travel row before the profile row
NextStepSwapped(step) ==
  CASE step = "validate"  -> "travel"
    [] step = "travel"    -> "profile"
    [] step = "profile"   -> "lookup"
    [] step = "lookup"    -> "qr_update"
    [] step = "qr_update" -> "qr_buffer"
    [] step = "qr_buffer" -> "doc_end"
    [] step = "doc_end"   -> "upload"
    [] step = "upload"    -> "entry"
    [] OTHER              -> "none"

\* the step the handler starts once `step` has completed without error
NextStep(step) ==
  CASE step = "validate"  -> "profile"     \* supabase.from("profiles").insert
    [] step = "profile"   -> "travel"      \* from("travel_information").insert
    [] step = "travel"    -> IF variant = "tempfile"
                               THEN "qr_update"  \* the temp-file handler has no allocator
                               ELSE "lookup"     \* from("entry_form").select.eq.single
    [] step = "lookup"    -> "qr_update"   \* QRCode.toBuffer, first code
    [] step = "qr_update" -> "qr_buffer"   \* QRCode.toBuffer, second code
    [] step = "qr_buffer" -> "doc_end"     \* doc.end() and its end (finish) event
    [] step = "doc_end"   -> "upload"      \* storage.from("pdfs").upload
    [] step = "upload"    -> "entry"       \* from("entry_form").insert
    [] OTHER              -> "none"

\* the steps in flight once `step` has returned and `next` was started
Started(calls, step, next) ==
  (calls \ {step}) \cup (IF next = "none" THEN {} ELSE {next})

(***************************************************************************)
(* Responses.                                                              *)
(***************************************************************************)
NoErrors ==
  [personalInfo |-> NoFieldErrors(personalInfoSchema),
   tripInfo |-> NoFieldErrors(tripAccommodationSchema),
   health |-> NoHealthErrors]

\* res.status(400).json({ success: false, errors })
Response400(errors) ==
  [status |-> 400, keys |-> {"success", "errors"}, success |-> FALSE,
   errors |-> errors, message |-> << >>, profile |-> << >>, travel |-> << >>,
   entry |-> << >>, uniqueId |-> 0, pdfUrl |-> << >>, arrivalCardNo |-> "",
   publicUrl |-> << >>]

\* res.status(500).json({ success: false, message: error.message })
Response500(message) ==
  [status |-> 500, keys |-> {"success", "message"}, success |-> FALSE,
   errors |-> NoErrors, message |-> message, profile |-> << >>, travel |-> << >>,
   entry |-> << >>, uniqueId |-> 0, pdfUrl |-> << >>, arrivalCardNo |-> "",
   publicUrl |-> << >>]

\* res.json({ success: true, profile, travel, entry, uniqueId, pdfUrl, arrivalCardNo })
Response200(profile, travel, entry, id, url, cardNo) ==
  [status |-> 200,
   keys |-> {"success", "profile", "travel", "entry", "uniqueId", "pdfUrl", "arrivalCardNo"},
   success |-> TRUE, errors |-> NoErrors, message |-> << >>, profile |-> profile,
   travel |-> travel, entry |-> entry, uniqueId |-> id, pdfUrl |-> url,
   arrivalCardNo |-> cardNo, publicUrl |-> << >>]

\* the temp-file handler: res.json({ success: true, profile, travel, entry, publicUrl })
Response200TempFile(profile, travel, entry, url) ==
  [status |-> 200, keys |-> {"success", "profile", "travel", "entry", "publicUrl"},
   success |-> TRUE, errors |-> NoErrors, message |-> << >>, profile |-> profile,
   travel |-> travel, entry |-> entry, uniqueId |-> 0, pdfUrl |-> << >>,
   arrivalCardNo |-> "", publicUrl |-> url]

\* the message of the error thrown for a failed upload or entry_form insert:
\* the temp-file handler throws the store's error itself
Thrown(prefix, text) ==
  IF variant = "tempfile" THEN << text >> ELSE << prefix, text >>

\* the files of ./pdfs after createWriteStream, after the stream finished
\* with `data` written, and after unlinkSync
CreateFile(files, name) == {f \in files : f.name # name} \cup {[name |-> name, body |-> << >>]}
WriteFile(files, name, data) ==
  {f \in files : f.name # name} \cup {[name |-> name, body |-> data]}
Unlink(files, name) == {f \in files : f.name # name}
\* fs.readFileSync(filePath)
ReadFile(files, name) == (CHOOSE f \in files : f.name = name).body

\* a catch block that hides the error behind a fixed message
CatchGeneric(r, step, result, locals, message) ==
  /\ res' = [res EXCEPT ![r] = Append(@, Response500(<< "Internal Server Error" >>))]
  /\ pending' = [pending EXCEPT ![r] = Started(@, step, "none")]
  /\ completed' = [completed EXCEPT ![r] = IF result = "ok" THEN @ \cup {step} ELSE @]
  /\ pc' = [pc EXCEPT ![r] = "done"]
  /\ local' = [local EXCEPT ![r] = locals]
  /\ callCount' = callCount

\* the catch block: `step` ended with `result`, the handler's locals are
\* `locals`, and it responds 500 with error.message and returns
Catch(r, step, result, locals, message) ==
  /\ res' = [res EXCEPT ![r] = Append(@, Response500(message))]
  /\ pending' = [pending EXCEPT ![r] = Started(@, step, "none")]
  /\ completed' = [completed EXCEPT ![r] = IF result = "ok" THEN @ \cup {step} ELSE @]
  /\ pc' = [pc EXCEPT ![r] = "done"]
  /\ local' = [local EXCEPT ![r] = locals]
  /\ callCount' = callCount

\* `step` completed without error, the handler's locals become `locals` and it
\* awaits the next step
Proceed(r, step, locals) ==
  /\ pending' = [pending EXCEPT ![r] = Started(@, step, NextStep(step))]
  /\ completed' = [completed EXCEPT ![r] = @ \cup {step}]
  /\ pc' = [pc EXCEPT ![r] = NextStep(step)]
  /\ local' = [local EXCEPT ![r] = locals]
  /\ callCount' = [callCount EXCEPT ![r][NextStep(step)] = @ + 1]
  /\ res' = res

(***************************************************************************)
(* The handler of POST /api/create.                                        *)
(***************************************************************************)
validationPI(r) == SafeParse(personalInfoSchema, body[r].personalInfo)
validationTR(r) == SafeParse(tripAccommodationSchema, body[r].tripInfo)

\* a chunk of the document: what it shows, as [kind, id, text]
Chunk(kind, id, text) == [kind |-> kind, id |-> id, text |-> text]

\* String.prototype.toUpperCase() on the texts of the model
toUpperCase(s) == IF s = "x" THEN "X" ELSE s

\* value || "-": undefined, null and the empty string are falsy
OrDash(v) == IF v.t = "string" /\ v.s # "" THEN v.s ELSE "-"

\* a formatDate that formats whatever it is given
formatDateNoGuard(v) ==
  IF v.t = "string" /\ v.s = "2025-03-09" THEN "2025/3/9" ELSE "NaN/NaN/NaN"

\* formatDate(dateString): "-" when falsy, else year/month/day of new Date()
formatDate(v) ==
  IF ~(v.t = "string" /\ v.s # "") THEN "-"
  ELSE IF v.s = "2025-03-09" THEN "2025/3/9"
  ELSE "NaN/NaN/NaN"

\* drawField(label, value), the label standing for the field it shows
drawField(label, value) == Chunk(label, 0, value)

\* the visa and departure fields the document shows for the validated data
VisaAndDeparture(personalData, tripData) ==
  << drawField("visa_no", toUpperCase(OrDash(personalData.visa_no))),
     drawField("date_of_departure", formatDate(tripData.date_of_departure)),
     drawField("mode_of_travel_departure",
               toUpperCase(OrDash(tripData.mode_of_travel_departure))),
     drawField("mode_of_transport_departure",
               toUpperCase(OrDash(tripData.mode_of_transport_departure))),
     drawField("flight_vehicle_no_departure",
               toUpperCase(OrDash(tripData.flight_vehicle_no_departure))) >>

\* a handler that stops validating at the first section that fails
CreateFirstFailureOnly(r, b) ==
  /\ pc[r] = "idle"
  /\ body' = [body EXCEPT ![r] = b]
  /\ LET PI == SafeParse(personalInfoSchema, b.personalInfo)
         TR == SafeParse(tripAccommodationSchema, b.tripInfo)
         H == SafeParseHealth(b.health)
         errors == [personalInfo |-> FieldErrorsOrEmpty(PI, NoFieldErrors(personalInfoSchema)),
                    tripInfo |-> IF PI.success
                                   THEN FieldErrorsOrEmpty(TR, NoFieldErrors(tripAccommodationSchema))
                                   ELSE NoFieldErrors(tripAccommodationSchema),
                    health |-> IF PI.success /\ TR.success
                                 THEN FieldErrorsOrEmpty(H, NoHealthErrors)
                                 ELSE NoHealthErrors]
     IN IF ~PI.success \/ ~TR.success \/ ~H.success
          THEN /\ res' = [res EXCEPT ![r] = Append(@, Response400(errors))]
               /\ pc' = [pc EXCEPT ![r] = "done"]
               /\ UNCHANGED << pending, completed, callCount >>
          ELSE /\ pending' = [pending EXCEPT ![r] = Started(@, "validate", NextStep("validate"))]
               /\ callCount' = [callCount EXCEPT ![r][NextStep("validate")] = @ + 1]
               /\ completed' = [completed EXCEPT ![r] = @ \cup {"validate"}]
               /\ pc' = [pc EXCEPT ![r] = NextStep("validate")]
               /\ res' = res
  /\ UNCHANGED << store, uniqueConstraint, local, lookups, variant, disk, input, output >>

\* The request arrives and is validated; a valid one starts the profile insert.
Create(r, b) ==
  /\ pc[r] = "idle"
  /\ body' = [body EXCEPT ![r] = b]
  /\ LET PI == SafeParse(personalInfoSchema, b.personalInfo)
         TR == SafeParse(tripAccommodationSchema, b.tripInfo)
         H == SafeParseHealth(b.health)
         errors == [personalInfo |-> FieldErrorsOrEmpty(PI, NoFieldErrors(personalInfoSchema)),
                    tripInfo |-> FieldErrorsOrEmpty(TR, NoFieldErrors(tripAccommodationSchema)),
                    health |-> FieldErrorsOrEmpty(H, NoHealthErrors)]
     IN IF ~PI.success \/ ~TR.success \/ ~H.success
          THEN /\ res' = [res EXCEPT ![r] = Append(@, Response400(errors))]
               /\ pc' = [pc EXCEPT ![r] = "done"]
               /\ UNCHANGED << pending, completed, callCount >>
          ELSE /\ pending' = [pending EXCEPT ![r] = Started(@, "validate", NextStep("validate"))]
               /\ callCount' = [callCount EXCEPT ![r][NextStep("validate")] = @ + 1]
               /\ completed' = [completed EXCEPT ![r] = @ \cup {"validate"}]
               /\ pc' = [pc EXCEPT ![r] = NextStep("validate")]
               /\ res' = res
  /\ UNCHANGED << store, uniqueConstraint, local, lookups, variant, disk, input, output >>

\* a handler that repeats a failed profile insert once
ProfileInsertRetriesOnce(r) ==
  /\ pc[r] = "profile"
  /\ \/ LET row == [id |-> Len(profiles) + 1, data |-> validationPI(r).data]
        IN /\ profiles' = Append(profiles, row)
           /\ Proceed(r, "profile", [local[r] EXCEPT !.profileData = << row >>])
     \/ /\ callCount[r]["profile"] >= 2
        /\ Catch(r, "profile", "error", local[r], << StoreErrorText >>)
        /\ UNCHANGED profiles
     \/ /\ callCount[r]["profile"] < 2
        /\ callCount' = [callCount EXCEPT ![r]["profile"] = @ + 1]
        /\ UNCHANGED << profiles, pc, local, pending, completed, res >>
  /\ UNCHANGED << travel_information, entry_form, pdfs, uniqueConstraint, body, lookups,
               variant, disk, input, output >>

\* The profile insert returns.
ProfileInsertReturn(r) ==
  /\ pc[r] = "profile"
  /\ \/ LET row == [id |-> Len(profiles) + 1, data |-> validationPI(r).data]
        IN /\ profiles' = Append(profiles, row)
           /\ Proceed(r, "profile", [local[r] EXCEPT !.profileData = << row >>])
     \/ /\ Catch(r, "profile", "error", local[r], << StoreErrorText >>)
        /\ UNCHANGED profiles
  /\ UNCHANGED << travel_information, entry_form, pdfs, uniqueConstraint, body, lookups,
               variant, disk, input, output >>

\* the identifiers in use: held by a handler or stored
UsedUuids ==
  ({local[q].uniqueId : q \in Reqs} \ {0})
    \cup {o.name[1] : o \in pdfs}
    \cup {entry_form[i].qrcode_data : i \in DOMAIN entry_form}

\* uuidv4(): any identifier.  Identifiers matter by equality alone, so the
\* ones in use and the smallest one not in use stand for all of them.
uuidv4 ==
  UsedUuids \cup {id \in Uuids : id \notin UsedUuids /\ \A j \in Uuids \ UsedUuids : id <= j}

\* a handler that deletes its profile row when the travel insert fails
TravelInsertRollback(r) ==
  /\ pc[r] = "travel"
  /\ \/ LET row == [id |-> Len(travel_information) + 1,
                    data |-> validationTR(r).data,
                    countries_visited |-> body[r].health.countries_visited.a]
        IN /\ travel_information' = Append(travel_information, row)
           /\ \E id \in uuidv4, random \in Randoms :
                Proceed(r, "travel", [local[r] EXCEPT !.trData = << row >>,
                                                      !.uniqueId = id,
                                                      !.arrivalCardNo = DrawCardNo(random)])
           /\ lookups' = [lookups EXCEPT ![r] = @ + 1]
           /\ UNCHANGED profiles
     \/ /\ Catch(r, "travel", "error", local[r], << StoreErrorText >>)
        /\ profiles' = SelectSeq(profiles, LAMBDA row : row.id # local[r].profileData[1].id)
        /\ UNCHANGED << travel_information, lookups >>
  /\ UNCHANGED << entry_form, pdfs, uniqueConstraint, body,
               variant, disk, input, output >>

\* The travel insert returns; the handler draws the document identifier and
\* the first candidate number and starts the first lookup.
TravelInsertReturn(r) ==
  /\ pc[r] = "travel"
  /\ \/ LET row == [id |-> Len(travel_information) + 1,
                    data |-> validationTR(r).data,
                    countries_visited |-> body[r].health.countries_visited.a]
        IN /\ travel_information' = Append(travel_information, row)
           /\ IF variant = "memory"
                THEN /\ \E id \in uuidv4, random \in Randoms :
                          Proceed(r, "travel", [local[r] EXCEPT !.trData = << row >>,
                                                                !.uniqueId = id,
                                                                !.arrivalCardNo = DrawCardNo(random)])
                     /\ lookups' = [lookups EXCEPT ![r] = @ + 1]
                     /\ disk' = disk
                ELSE \* the temp-file handler: no card number; the document is
                     \* piped to ./pdfs/<uniqueId>.pdf and drawn up to its first QR code
                     /\ \E id \in uuidv4 :
                          LET locals == [local[r] EXCEPT !.trData = << row >>, !.uniqueId = id]
                          IN /\ \/ Proceed(r, "travel",
                                           [locals EXCEPT !.chunks = << Chunk("notice", 0, "") >>])
                                \/ Catch(r, "travel", "ok", locals, << RenderErrorText >>)
                             /\ disk' = CreateFile(disk, FileName(id))
                     /\ lookups' = lookups
     \/ /\ Catch(r, "travel", "error", local[r], << StoreErrorText >>)
        /\ UNCHANGED << travel_information, lookups, disk >>
  /\ UNCHANGED << profiles, entry_form, pdfs, uniqueConstraint, body, variant, input, output >>

\* .select("arrival_card_no").eq("arrival_card_no", cardNo).single(): the code
\* of its error: none when exactly one row matches, PGRST116 when no row or
\* several rows match
SingleError(rows, cardNo) ==
  IF Cardinality({i \in DOMAIN rows : rows[i].arrival_card_no = cardNo}) = 1
    THEN "none" ELSE PGRST116

\* a loop bound that is off by one
LoopContinuesOffByOne(unique, n) == ~unique /\ n <= maxAttempts

\* while (!isUnique && attempts < maxAttempts)
LoopContinues(unique, n) == ~unique /\ n < maxAttempts

\* a loop body that takes any error of the lookup for "not found"
BranchLenient(code) ==
  IF code # "none" THEN "unique" ELSE "retry"

\* the branch the loop body takes on checkError.code
Branch(code) ==
  IF code = PGRST116 THEN "unique"
  ELSE IF code # "none" THEN "throw"
  ELSE "retry"

\* an allocator loop that draws the document identifier anew with each candidate
LookupReturnRedrawsId(r) ==
  /\ pc[r] = "lookup"
  /\ \E code \in {SingleError(entry_form, local[r].arrivalCardNo), OtherErrorCode} :
       \/ /\ Branch(code) = "unique"
          /\ \/ Proceed(r, "lookup",
                        [local[r] EXCEPT !.isUnique = TRUE,
                                         !.chunks = Append(@, Chunk("notice", 0, ""))])
             \/ Catch(r, "lookup", "ok", [local[r] EXCEPT !.isUnique = TRUE],
                      << RenderErrorText >>)
          /\ UNCHANGED lookups
       \/ /\ Branch(code) = "throw"
          /\ Catch(r, "lookup", "error", local[r], << VerifyPrefix, StoreErrorText >>)
          /\ UNCHANGED lookups
       \/ /\ Branch(code) = "retry"
          /\ IF LoopContinues(local[r].isUnique, local[r].attempts + 1)
               THEN /\ \E random \in Randoms, id \in Uuids :
                         local' = [local EXCEPT ![r].attempts = @ + 1,
                                                ![r].uniqueId = id,
                                                ![r].arrivalCardNo = DrawCardNo(random)]
                    /\ pending' = [pending EXCEPT ![r] = Started(@, "lookup", "lookup")]
                    /\ lookups' = [lookups EXCEPT ![r] = @ + 1]
                    /\ callCount' = [callCount EXCEPT ![r]["lookup"] = @ + 1]
                    /\ UNCHANGED << pc, res, completed >>
               ELSE /\ Catch(r, "lookup", "taken", [local[r] EXCEPT !.attempts = @ + 1],
                             << ExhaustedText >>)
                    /\ UNCHANGED lookups
  /\ UNCHANGED << store, uniqueConstraint, body, variant, disk, input, output >>

\* a handler whose attempt counter is one variable of the module, shared by
\* the requests in flight
LookupReturnSharedAttempts(r) ==
  /\ pc[r] = "lookup"
  /\ \E code \in {SingleError(entry_form, local[r].arrivalCardNo), OtherErrorCode} :
       \/ /\ Branch(code) = "unique"
          /\ \/ Proceed(r, "lookup",
                        [local[r] EXCEPT !.isUnique = TRUE,
                                         !.chunks = Append(@, Chunk("notice", 0, ""))])
             \/ Catch(r, "lookup", "ok", [local[r] EXCEPT !.isUnique = TRUE],
                      << RenderErrorText >>)
          /\ UNCHANGED lookups
       \/ /\ Branch(code) = "throw"
          /\ Catch(r, "lookup", "error", local[r], << VerifyPrefix, StoreErrorText >>)
          /\ UNCHANGED lookups
       \/ /\ Branch(code) = "retry"
          /\ IF LoopContinues(local[r].isUnique, local[r].attempts + 1)
               THEN /\ \E random \in Randoms :
                         local' = [q \in Reqs |->
                                     IF q = r
                                       THEN [local[q] EXCEPT !.attempts = @ + 1,
                                                             !.arrivalCardNo = DrawCardNo(random)]
                                       ELSE [local[q] EXCEPT !.attempts = @ + 1]]
                    /\ pending' = [pending EXCEPT ![r] = Started(@, "lookup", "lookup")]
                    /\ lookups' = [lookups EXCEPT ![r] = @ + 1]
                    /\ callCount' = [callCount EXCEPT ![r]["lookup"] = @ + 1]
                    /\ UNCHANGED << pc, res, completed >>
               ELSE /\ Catch(r, "lookup", "taken", [local[r] EXCEPT !.attempts = @ + 1],
                             << ExhaustedText >>)
                    /\ UNCHANGED lookups
  /\ UNCHANGED << store, uniqueConstraint, body, variant, disk, input, output >>

\* A uniqueness lookup returns: the allocator loop accepts the candidate,
\* redraws, gives up after maxAttempts, or aborts on any other error.
LookupReturn(r) ==
  /\ pc[r] = "lookup"
  /\ \E code \in {SingleError(entry_form, local[r].arrivalCardNo), OtherErrorCode} :
       \/ /\ Branch(code) = "unique"
          /\ \/ Proceed(r, "lookup",
                        [local[r] EXCEPT !.isUnique = TRUE,
                                         !.chunks = Append(@, Chunk("notice", 0, ""))])
             \/ Catch(r, "lookup", "ok", [local[r] EXCEPT !.isUnique = TRUE],
                      << RenderErrorText >>)
          /\ UNCHANGED lookups
       \/ /\ Branch(code) = "throw"
          /\ Catch(r, "lookup", "error", local[r], << VerifyPrefix, StoreErrorText >>)
          /\ UNCHANGED lookups
       \/ /\ Branch(code) = "retry"
          /\ IF LoopContinues(local[r].isUnique, local[r].attempts + 1)
               THEN /\ \E random \in Randoms :
                         local' = [local EXCEPT ![r].attempts = @ + 1,
                                                ![r].arrivalCardNo = DrawCardNo(random)]
                    /\ pending' = [pending EXCEPT ![r] = Started(@, "lookup", "lookup")]
                    /\ lookups' = [lookups EXCEPT ![r] = @ + 1]
                    /\ callCount' = [callCount EXCEPT ![r]["lookup"] = @ + 1]
                    /\ UNCHANGED << pc, res, completed >>
               ELSE /\ Catch(r, "lookup", "taken", [local[r] EXCEPT !.attempts = @ + 1],
                             << ExhaustedText >>)
                    /\ UNCHANGED lookups
  /\ UNCHANGED << store, uniqueConstraint, body, variant, disk, input, output >>

\* the text of the update-instructions URL of the temp-file handler
UpdateUrl == "https://tdac.immigration.go.th/arrival-card/#/tac/arrival-card/update/search"

\* the two QR codes, as [kind, the identifier encoded, the text around it]:
\* QRCode.toBuffer(uniqueId) twice; in the temp-file handler
\* QRCode.toBuffer(updateUrl) and QRCode.toBuffer(publicUrl)
qrUpdate(r) ==
  IF variant = "tempfile" THEN Chunk("qrUpdate", 0, UpdateUrl)
  ELSE Chunk("qrUpdate", local[r].uniqueId, "")
qrBuffer(r) ==
  IF variant = "tempfile" THEN Chunk("qrBuffer", local[r].uniqueId, "publicUrl")
  ELSE Chunk("qrBuffer", local[r].uniqueId, "")

\* the temp-file handler: value.toUpperCase() || "-", for a string value
UpperOrDash(v) == IF toUpperCase(v.s) = "" THEN "-" ELSE toUpperCase(v.s)

\* the temp-file handler calls toUpperCase() on visa_no and on three of the
\* departure fields before it defaults them: a TypeError when one is no string
FieldsThrow(personalData, tripData) ==
  \/ personalData.visa_no.t # "string"
  \/ tripData.mode_of_travel_departure.t # "string"
  \/ tripData.mode_of_transport_departure.t # "string"
  \/ tripData.flight_vehicle_no_departure.t # "string"

VisaAndDepartureTempFile(personalData, tripData) ==
  << drawField("visa_no", UpperOrDash(personalData.visa_no)),
     drawField("date_of_departure", formatDate(tripData.date_of_departure)),
     drawField("mode_of_travel_departure", UpperOrDash(tripData.mode_of_travel_departure)),
     drawField("mode_of_transport_departure",
               UpperOrDash(tripData.mode_of_transport_departure)),
     drawField("flight_vehicle_no_departure",
               UpperOrDash(tripData.flight_vehicle_no_departure)) >>

\* QRCode.toBuffer for the first code returns.
QrUpdateReturn(r) ==
  /\ pc[r] = "qr_update"
  /\ \/ Proceed(r, "qr_update", [local[r] EXCEPT !.chunks = Append(@, qrUpdate(r))])
     \/ Catch(r, "qr_update", "error", local[r], << RenderErrorText >>)
  /\ UNCHANGED << store, uniqueConstraint, body, lookups, variant, disk, input, output >>

\* the last data of a document, which doc.end() writes
Trailer == Chunk("trailer", 0, "")

\* the chunks once the document has emitted all its data
Complete(chunks) ==
  IF chunks # << >> /\ chunks[Len(chunks)] = Trailer THEN chunks ELSE Append(chunks, Trailer)

\* the value of the Address field: province, district and sub-district
\* (upper-cased by the memory handler) and the address, joined by ", "
AddressText(tripData, upper) ==
  IF /\ tripData.province = Str("x") /\ tripData.district_area = Str("x")
     /\ tripData.sub_district = Str("x") /\ tripData.address = Str("x")
    THEN IF upper THEN "X, X, X, x" ELSE "x, x, x, x"
    ELSE "province, district_area, sub_district, address"

\* the accommodation section, the last the handler draws before doc.end()
Accommodation(tripData, upper) ==
  << drawField("type_of_accommodation", toUpperCase(tripData.type_of_accommodation.s)),
     drawField("post_code", tripData.post_code.s),
     drawField("address", AddressText(tripData, upper)) >>

\* the page content the handler draws after the second QR code
PageContent(r) ==
  IF variant = "tempfile"
    THEN << qrBuffer(r), Chunk("cardNo", local[r].uniqueId, "") >>
           \o VisaAndDepartureTempFile(validationPI(r).data, validationTR(r).data)
           \o Accommodation(validationTR(r).data, FALSE)
    ELSE << qrBuffer(r), Chunk("cardNo", 0, local[r].arrivalCardNo) >>
           \o VisaAndDeparture(validationPI(r).data, validationTR(r).data)
           \o Accommodation(validationTR(r).data, TRUE)

\* a memory handler that upper-cases the fields before it defaults them
PageThrowsMemory(r) == FieldsThrow(validationPI(r).data, validationTR(r).data)

\* drawing the page content throws
PageThrows(r) ==
  variant = "tempfile" /\ FieldsThrow(validationPI(r).data, validationTR(r).data)

\* a handler that awaits the end of the document without a listener for it
QrBufferReturnNoListener(r) ==
  /\ pc[r] = "qr_buffer"
  /\ \/ \E flushed \in BOOLEAN :
          Proceed(r, "qr_buffer",
                  [local[r] EXCEPT !.chunks = IF flushed THEN Complete(@ \o PageContent(r))
                                              ELSE @ \o PageContent(r)])
     \/ Catch(r, "qr_buffer", "error", local[r], << RenderErrorText >>)
  /\ UNCHANGED << store, uniqueConstraint, body, lookups, variant, disk, input, output >>

\* QRCode.toBuffer for the second code returns; the handler draws the rest of
\* the document, calls doc.end() and awaits the end event.  The data that
\* doc.end() writes is emitted at once or before the end event.
QrBufferReturn(r) ==
  /\ pc[r] = "qr_buffer"
  /\ \/ /\ ~PageThrows(r)
        /\ \E flushed \in BOOLEAN :
             Proceed(r, "qr_buffer",
                     [local[r] EXCEPT !.chunks = IF flushed THEN Complete(@ \o PageContent(r))
                                                 ELSE @ \o PageContent(r),
                                      !.listening = TRUE])
     \/ /\ PageThrows(r)
        /\ Catch(r, "qr_buffer", "ok", local[r], << TypeErrorText >>)
     \/ Catch(r, "qr_buffer", "error", local[r], << RenderErrorText >>)
  /\ UNCHANGED << store, uniqueConstraint, body, lookups, variant, disk, input, output >>

\* a handler that takes the buffer without waiting for the rest of the data
DocEndPartial(r) ==
  /\ pc[r] = "doc_end"
  /\ local[r].listening
  /\ \/ Proceed(r, "doc_end", [local[r] EXCEPT !.pdfBuffer = local[r].chunks])
     \/ Catch(r, "doc_end", "error", local[r], << RenderErrorText >>)
  /\ UNCHANGED << store, uniqueConstraint, body, lookups, variant, disk, input, output >>

\* The document emits end (or error) to the listeners of the await; on end
\* all its data was emitted, and the handler concatenates the chunks and
\* starts the upload.
DocEnd(r) ==
  /\ pc[r] = "doc_end"
  /\ local[r].listening
  /\ \/ IF variant = "tempfile"
          THEN \* the write stream finished: the file holds all the data, and
               \* the handler reads it back
               LET filePath == FileName(local[r].uniqueId)
                   written == WriteFile(disk, filePath, Complete(local[r].chunks))
               IN /\ disk' = written
                  /\ Proceed(r, "doc_end",
                             [local[r] EXCEPT !.chunks = Complete(@),
                                              !.pdfBuffer = ReadFile(written, filePath)])
          ELSE /\ Proceed(r, "doc_end", [local[r] EXCEPT !.chunks = Complete(@),
                                                         !.pdfBuffer = Complete(local[r].chunks)])
               /\ disk' = disk
     \/ /\ Catch(r, "doc_end", "error", local[r], << RenderErrorText >>)
        /\ disk' = disk
  /\ UNCHANGED << store, uniqueConstraint, body, lookups, variant, input, output >>

\* an upload that replaces an object stored under the same key
UploadReturnUpsert(r) ==
  /\ pc[r] = "upload"
  /\ LET fileName == FileName(local[r].uniqueId)
     IN \/ /\ pdfs' = {o \in pdfs : o.name # fileName}
                        \cup {[name |-> fileName, body |-> local[r].pdfBuffer,
                               contentType |-> "application/pdf"]}
           /\ Proceed(r, "upload", local[r])
        \/ /\ Catch(r, "upload", "error", local[r], << UploadPrefix, StoreErrorText >>)
           /\ UNCHANGED pdfs
  /\ UNCHANGED << profiles, travel_information, entry_form, uniqueConstraint, body, lookups,
               variant, disk, input, output >>

\* a handler that goes on to the entry_form insert after a failed upload
UploadReturnIgnoresError(r) ==
  /\ pc[r] = "upload"
  /\ LET fileName == FileName(local[r].uniqueId)
     IN \/ /\ \A o \in pdfs : o.name # fileName
           /\ pdfs' = pdfs \cup {[name |-> fileName, body |-> local[r].pdfBuffer,
                                  contentType |-> "application/pdf"]}
           /\ Proceed(r, "upload", local[r])
        \/ /\ Proceed(r, "upload", local[r])
           /\ UNCHANGED pdfs
  /\ UNCHANGED << profiles, travel_information, entry_form, uniqueConstraint, body, lookups,
               variant, disk, input, output >>

\* a temp-file handler that leaves its file on disk
UploadReturnKeepsFile(r) ==
  /\ pc[r] = "upload"
  /\ LET fileName == FileName(local[r].uniqueId)
     IN \/ /\ \A o \in pdfs : o.name # fileName
           /\ pdfs' = pdfs \cup {[name |-> fileName, body |-> local[r].pdfBuffer,
                                  contentType |-> "application/pdf"]}
           /\ Proceed(r, "upload", local[r])
        \/ /\ \E o \in pdfs : o.name = fileName
           /\ Catch(r, "upload", "error", local[r], Thrown(UploadPrefix, ObjectExistsText))
           /\ UNCHANGED pdfs
        \/ /\ Catch(r, "upload", "error", local[r], Thrown(UploadPrefix, StoreErrorText))
           /\ UNCHANGED pdfs
  /\ UNCHANGED << profiles, travel_information, entry_form, uniqueConstraint, body, lookups,
               variant, disk, input, output >>

\* The upload (upsert: false) returns; on success the handler starts the
\* entry_form insert.
UploadReturn(r) ==
  /\ pc[r] = "upload"
  /\ LET fileName == FileName(local[r].uniqueId)
     IN \/ /\ \A o \in pdfs : o.name # fileName
           /\ pdfs' = pdfs \cup {[name |-> fileName, body |-> local[r].pdfBuffer,
                                  contentType |-> "application/pdf"]}
           /\ Proceed(r, "upload", local[r])
           \* the temp-file handler: fs.unlinkSync(filePath)
           /\ disk' = IF variant = "tempfile" THEN Unlink(disk, fileName) ELSE disk
        \/ /\ \E o \in pdfs : o.name = fileName
           /\ Catch(r, "upload", "error", local[r], Thrown(UploadPrefix, ObjectExistsText))
           /\ UNCHANGED << pdfs, disk >>
        \/ /\ Catch(r, "upload", "error", local[r], Thrown(UploadPrefix, StoreErrorText))
           /\ UNCHANGED << pdfs, disk >>
  /\ UNCHANGED << profiles, travel_information, entry_form, uniqueConstraint, body, lookups,
               variant, input, output >>

\* a row with the two foreign keys exchanged
finalDataSwapped(r) ==
  [profile_id |-> local[r].trData[1].id,
   tr_id |-> local[r].profileData[1].id,
   filepath |-> PublicUrl(FileName(local[r].uniqueId)),
   qrcode_data |-> local[r].uniqueId,
   arrival_card_no |-> local[r].arrivalCardNo]

\* a row that always refers to the first profile
finalDataFirstProfile(r) ==
  [profile_id |-> 1,
   tr_id |-> local[r].trData[1].id,
   filepath |-> PublicUrl(FileName(local[r].uniqueId)),
   qrcode_data |-> local[r].uniqueId,
   arrival_card_no |-> local[r].arrivalCardNo]

\* the row the handler inserts into entry_form
finalData(r) ==
  [profile_id |-> local[r].profileData[1].id,
   tr_id |-> local[r].trData[1].id,
   filepath |-> PublicUrl(FileName(local[r].uniqueId)),
   qrcode_data |-> local[r].uniqueId,
   arrival_card_no |-> local[r].arrivalCardNo]

\* a store that never refuses a row
DuplicateRejectedNever(rows, row) == FALSE

\* the store refuses the row: the schema has the unique constraint and a row
\* with the same arrival_card_no exists (a row of the temp-file handler has
\* none: "" stands for its NULL, which equals no other)
DuplicateRejected(rows, row) ==
  /\ uniqueConstraint
  /\ row.arrival_card_no # ""
  /\ \E i \in DOMAIN rows : rows[i].arrival_card_no = row.arrival_card_no

\* the response of a request whose entry_form row was stored
Success(r, row) ==
  IF variant = "tempfile"
    THEN Response200TempFile(local[r].profileData, local[r].trData, << row >>,
                             PublicUrl(FileName(local[r].uniqueId)))
    ELSE Response200(local[r].profileData, local[r].trData, << row >>, local[r].uniqueId,
                     PublicUrl(FileName(local[r].uniqueId)), local[r].arrivalCardNo)

\* a handler that answers a refused duplicate by drawing another number
EntryInsertRetry(r) ==
  /\ pc[r] = "entry"
  /\ \/ /\ ~DuplicateRejected(entry_form, finalData(r))
        /\ LET row == [id |-> Len(entry_form) + 1] @@ finalData(r)
           IN /\ entry_form' = Append(entry_form, row)
              /\ res' = [res EXCEPT ![r] =
                           Append(@, Response200(local[r].profileData, local[r].trData,
                                                 << row >>, local[r].uniqueId,
                                                 PublicUrl(FileName(local[r].uniqueId)),
                                                 local[r].arrivalCardNo))]
        /\ pending' = [pending EXCEPT ![r] = Started(@, "entry", "none")]
        /\ completed' = [completed EXCEPT ![r] = @ \cup {"entry"}]
        /\ pc' = [pc EXCEPT ![r] = "done"]
        /\ UNCHANGED << local, lookups, callCount >>
     \/ /\ DuplicateRejected(entry_form, finalData(r))
        /\ \E random \in Randoms :
             local' = [local EXCEPT ![r].arrivalCardNo = DrawCardNo(random)]
        /\ pending' = [pending EXCEPT ![r] = Started(@, "entry", "lookup")]
        /\ pc' = [pc EXCEPT ![r] = "lookup"]
        /\ lookups' = [lookups EXCEPT ![r] = @ + 1]
        /\ callCount' = [callCount EXCEPT ![r]["lookup"] = @ + 1]
        /\ UNCHANGED << entry_form, res, completed >>
     \/ /\ Catch(r, "entry", "error", local[r], << InsertPrefix, StoreErrorText >>)
        /\ UNCHANGED << entry_form, lookups >>
  /\ UNCHANGED << profiles, travel_information, pdfs, uniqueConstraint, body,
               variant, disk, input, output >>

\* The entry_form insert returns; on success the handler responds and returns.
EntryInsertReturn(r) ==
  /\ pc[r] = "entry"
  /\ \/ /\ ~DuplicateRejected(entry_form, finalData(r))
        /\ LET row == [id |-> Len(entry_form) + 1] @@ finalData(r)
           IN /\ entry_form' = Append(entry_form, row)
              /\ res' = [res EXCEPT ![r] = Append(@, Success(r, row))]
        /\ pending' = [pending EXCEPT ![r] = Started(@, "entry", "none")]
        /\ completed' = [completed EXCEPT ![r] = @ \cup {"entry"}]
        /\ pc' = [pc EXCEPT ![r] = "done"]
        /\ UNCHANGED << local, callCount >>
     \/ /\ DuplicateRejected(entry_form, finalData(r))
        /\ Catch(r, "entry", "error", local[r], Thrown(InsertPrefix, DuplicateKeyText))
        /\ UNCHANGED entry_form
     \/ /\ Catch(r, "entry", "error", local[r], Thrown(InsertPrefix, StoreErrorText))
        /\ UNCHANGED entry_form
  /\ UNCHANGED << profiles, travel_information, pdfs, uniqueConstraint, body, lookups,
               variant, disk, input, output >>

\* the steps of the handler of request r after its validation
Handler(r) ==
  \/ ProfileInsertReturn(r)
  \/ TravelInsertReturn(r)
  \/ LookupReturn(r)
  \/ QrUpdateReturn(r)
  \/ QrBufferReturn(r)
  \/ DocEnd(r)
  \/ UploadReturn(r)
  \/ EntryInsertReturn(r)

(***************************************************************************)
(* Spec: NumReqs concurrent requests against a store that starts empty.    *)
(***************************************************************************)
Next ==
  \E r \in Reqs :
    \/ \E b \in Bodies : Create(r, b)
    \/ Handler(r)

Spec == Init /\ [][Next]_vars

(***************************************************************************)
(* SpecOne: one request against a store that holds the cards issued to     *)
(* earlier requests.                                                       *)
(***************************************************************************)
TheRequest == CHOOSE r \in Reqs : \A q \in Reqs : r <= q

\* the card numbers the allocator can draw
CardNos == {DrawCardNo(random) : random \in Randoms}

\* the cards issued earlier, in order of issue: at most MaxEarlier of them
EarlierCards == UNION {[1..n -> CardNos] : n \in 0..MaxEarlier}

\* the identifier of the i-th earlier document; none is in Uuids
EarlierUuid(i) == NumUuids + i

EarlierChunks(i, cardNo) ==
  << Chunk("notice", 0, ""), Chunk("qrUpdate", EarlierUuid(i), ""),
     Chunk("qrBuffer", EarlierUuid(i), ""), Chunk("cardNo", 0, cardNo) >>
    \o VisaAndDeparture(SafeParse(personalInfoSchema, ValidPersonal).data,
                        SafeParse(tripAccommodationSchema, ValidTrip).data)
    \o Accommodation(SafeParse(tripAccommodationSchema, ValidTrip).data, TRUE)
    \o << Trailer >>

\* earlier requests that failed after their profile insert: none or one
EarlierFailed == {0, 1}

\* the store after `failed` requests failed at their travel insert and then
\* the requests that were issued the cards `cards` completed
InitOne ==
  /\ uniqueConstraint \in BOOLEAN
  /\ \E cards \in EarlierCards, failed \in EarlierFailed :
       /\ uniqueConstraint => \A i, j \in DOMAIN cards : cards[i] = cards[j] => i = j
       /\ profiles = [i \in 1..(failed + Len(cards)) |->
                        [id |-> i, data |-> SafeParse(personalInfoSchema, ValidPersonal).data]]
       /\ travel_information =
            [i \in DOMAIN cards |->
               [id |-> i, data |-> SafeParse(tripAccommodationSchema, ValidTrip).data,
                countries_visited |-> ValidHealth.countries_visited.a]]
       /\ pdfs = {[name |-> FileName(EarlierUuid(i)), body |-> EarlierChunks(i, cards[i]),
                   contentType |-> "application/pdf"] : i \in DOMAIN cards}
       /\ entry_form =
            [i \in DOMAIN cards |->
               [id |-> i, profile_id |-> failed + i, tr_id |-> i,
                filepath |-> PublicUrl(FileName(EarlierUuid(i))),
                qrcode_data |-> EarlierUuid(i), arrival_card_no |-> cards[i]]]
  /\ pc = [r \in Reqs |-> "idle"]
  /\ body = [r \in Reqs |-> NoBody]
  /\ local = [r \in Reqs |-> NoLocals]
  /\ lookups = [r \in Reqs |-> 0]
  /\ callCount = [r \in Reqs |-> NoCalls]
  /\ pending = [r \in Reqs |-> {}]
  /\ completed = [r \in Reqs |-> {}]
  /\ res = [r \in Reqs |-> << >>]
  /\ variant = "memory"
  /\ disk = {}
  /\ input = << >>
  /\ output = << >>

NextOne ==
  \/ \E b \in Bodies : Create(TheRequest, b)
  \/ Handler(TheRequest)

SpecOne == InitOne /\ [][NextOne]_vars

(***************************************************************************)
(* SpecValidation: one request with any of the ValidationBodies.           *)
(***************************************************************************)
NextValidation ==
  \/ \E b \in ValidationBodies : Create(TheRequest, b)
  \/ Handler(TheRequest)

SpecValidation == Init /\ [][NextValidation]_vars

(***************************************************************************)
(* Properties.                                                             *)
(***************************************************************************)
Responded(r) == res[r] # << >>
Response(r) == res[r][1]
Failed500(r, message) == res[r] = << Response500(message) >>

\* the rows of entry_form that carry card number cardNo
RowsWith(cardNo) == {i \in DOMAIN entry_form : entry_form[i].arrival_card_no = cardNo}

\* no row or object is stored, and request r has started nothing
NothingStored ==
  profiles = << >> /\ travel_information = << >> /\ entry_form = << >> /\ pdfs = {}
NothingStarted(r) ==
  completed[r] = {} /\ pending[r] = {} /\ lookups[r] = 0 /\ local[r] = NoLocals

C2_RaceOutcome ==
  [][\A r \in Reqs :
       (pc[r] = "entry" /\ pc'[r] # "entry") =>
         LET dup == RowsWith(local[r].arrivalCardNo) # {}
         IN /\ (dup /\ uniqueConstraint) =>
                 /\ entry_form' = entry_form
                 /\ pc'[r] = "done"
                 /\ res'[r] \in {<< Response500(<< InsertPrefix, DuplicateKeyText >>) >>,
                                 << Response500(<< InsertPrefix, StoreErrorText >>) >>}
                 /\ pending'[r] = {}
                 /\ lookups'[r] = lookups[r]
                 /\ local'[r] = local[r]
            /\ (~dup \/ ~uniqueConstraint) =>
                 \/ /\ Len(entry_form') = Len(entry_form) + 1
                    /\ entry_form'[Len(entry_form')].arrival_card_no = local[r].arrivalCardNo
                    /\ Len(res'[r]) = 1 /\ res'[r][1].status = 200
                 \/ /\ entry_form' = entry_form
                    /\ res'[r] = << Response500(<< InsertPrefix, StoreErrorText >>) >>
            /\ uniqueConstraint =>
                 \A q \in Reqs \ {r} :
                   ~(/\ Len(res'[r]) = 1 /\ res'[r][1].status = 200
                     /\ Len(res'[q]) = 1 /\ res'[q][1].status = 200
                     /\ res'[r][1].arrivalCardNo = res'[q][1].arrivalCardNo)]_vars

\* C2 witness: two requests passed the check with one number before either
\* inserted; under the constraint one was issued the card and the other ended
\* with a 500 after its single lookup.
C2_Witness ==
  /\ uniqueConstraint
  /\ \E r, q \in Reqs :
       /\ r # q
       /\ Responded(r) /\ Response(r).status = 200
       /\ Failed500(q, << InsertPrefix, DuplicateKeyText >>)
       /\ local[q].isUnique /\ local[r].isUnique
       /\ local[q].arrivalCardNo = local[r].arrivalCardNo
       /\ lookups[q] = 1 /\ lookups[r] = 1
       /\ Cardinality(RowsWith(local[r].arrivalCardNo)) = 1

\* the keys each schema requires, and those it requires to be non-empty
RequiredPersonal ==
  {"family_name", "first_name", "passport_no", "selected_nationality", "occupation",
   "gender", "selected_country", "selected_city", "phone_no_code", "phone_no",
   "date_of_birth"}
NonEmptyPersonal == {"family_name", "first_name", "passport_no"}
RequiredTrip ==
  {"date_of_arrival", "country_boarded", "purpose_of_travel", "mode_of_travel_arrival",
   "mode_of_transport_arrival", "flight_vehicle_no_arrival", "type_of_accommodation",
   "province", "district_area", "sub_district", "post_code", "address"}

PersonalFails(section) ==
  \/ section.t # "object"
  \/ \E k \in RequiredPersonal : section.f[k].t # "string"
  \/ \E k \in NonEmptyPersonal : section.f[k].s = ""
  \/ \E k \in PersonalFields \ RequiredPersonal : section.f[k].t \notin {"undefined", "string"}
TripFails(section) ==
  \/ section.t # "object"
  \/ \E k \in RequiredTrip : section.f[k].t # "string"
  \/ \E k \in TripFields \ RequiredTrip : section.f[k].t \notin {"undefined", "null", "string"}
HealthFails(section) ==
  \/ section.t # "object"
  \/ section.countries_visited.t # "array"
  \/ section.countries_visited.a = << >>
  \/ \E i \in DOMAIN section.countries_visited.a : section.countries_visited.a[i].t # "string"

\* C3: a request with a section that fails its schema (an empty list of
\* countries included) is answered 400 with success false, and nothing is
\* inserted, looked up, rendered or uploaded for it.
C3_FailFast ==
  \A r \in Reqs :
    (/\ pc[r] # "idle"
     /\ \/ PersonalFails(body[r].personalInfo)
        \/ TripFails(body[r].tripInfo)
        \/ HealthFails(body[r].health)) =>
      /\ pc[r] = "done"
      /\ Len(res[r]) = 1
      /\ Response(r).status = 400
      /\ Response(r).success = FALSE
      /\ NothingStarted(r)
      /\ NothingStored

\* C3 witness: a request whose only fault is its empty list of countries
\* was answered 400.
C3_Witness ==
  \E r \in Reqs :
    /\ body[r] = [ValidBody EXCEPT !.health = EmptyHealth]
    /\ Responded(r) /\ Response(r).status = 400

\* C4, as claimed: a request whose personalInfo lacks a required key, the
\* section being absent or no object included, is answered 400 with that key
\* in errors.personalInfo, and nothing is written.
C4_MissingFieldReported ==
  \A r \in Reqs : \A k \in RequiredPersonal :
    (/\ pc[r] # "idle"
     /\ \/ body[r].personalInfo.t # "object"
        \/ body[r].personalInfo.f[k].t = "undefined") =>
      /\ Len(res[r]) = 1
      /\ Response(r).status = 400
      /\ Response(r).errors.personalInfo[k] # << >>
      /\ NothingStored

\* the steps of a request in the order of the handler's source
StepOrder ==
  << "validate", "profile", "travel", "lookup", "qr_update", "qr_buffer", "doc_end",
     "upload", "entry" >>
Steps == {StepOrder[i] : i \in DOMAIN StepOrder}
Position(step) == CHOOSE i \in DOMAIN StepOrder : StepOrder[i] = step
Before(step) == {s \in Steps : Position(s) < Position(step)}
After(step) == {s \in Steps : Position(s) > Position(step)}

\* request r left no document, object or entry_form row
NothingRendered(r) ==
  /\ local[r].chunks = << >>
  /\ completed[r] \cap {"lookup", "qr_update", "qr_buffer", "doc_end", "upload", "entry"} = {}
  /\ \A i \in DOMAIN entry_form :
       entry_form[i].profile_id # local[r].profileData[1].id

\* C5: the allocator makes at most 10 lookups; a candidate accepted after k-1
\* taken ones is accepted after exactly k lookups and is the number the card
\* gets; after 10 taken candidates the request ends with a 500 after exactly
\* 10 lookups, and nothing is rendered, uploaded or inserted into entry_form.
C5_BoundedRetry ==
  \A r \in Reqs :
    /\ lookups[r] <= 10
    /\ pc[r] = "lookup" => lookups[r] = local[r].attempts + 1
    /\ local[r].isUnique =>
         /\ lookups[r] = local[r].attempts + 1
         /\ local[r].attempts <= 9
         /\ (Responded(r) /\ Response(r).status = 200) =>
              /\ Response(r).arrivalCardNo = local[r].arrivalCardNo
              /\ entry_form[Len(entry_form)].arrival_card_no = local[r].arrivalCardNo
    /\ local[r].attempts = 10 <=> Failed500(r, << ExhaustedText >>)
    /\ local[r].attempts = 10 =>
         /\ lookups[r] = 10
         /\ pc[r] = "done"
         /\ ~local[r].isUnique
         /\ pending[r] = {}
         /\ completed[r] = {"validate", "profile", "travel"}
         /\ NothingRendered(r)

\* C5 witness: the tenth candidate was accepted after nine taken ones.
C5_Witness ==
  \E r \in Reqs :
    local[r].isUnique /\ local[r].attempts = 9 /\ lookups[r] = 10

\* C5 witness: ten candidates were taken and the request ended with a 500.
C5_WitnessExhausted ==
  \E r \in Reqs : Failed500(r, << ExhaustedText >>) /\ lookups[r] = 10

\* C6: a candidate is accepted only on a lookup the store answers with
\* PGRST116, and on such an answer no candidate is counted as taken; a
\* lookup that fails otherwise ends the request at once with a 500: no draw,
\* no lookup, no render, upload or entry_form insert follows.
C6_LookupErrors ==
  [][\A r \in Reqs :
       LET answer == SingleError(entry_form, local[r].arrivalCardNo)
           aborted == res'[r] = << Response500(<< VerifyPrefix, StoreErrorText >>) >>
       IN pc[r] = "lookup" =>
            /\ local'[r].isUnique =>
                 /\ answer = PGRST116
                 /\ local'[r].arrivalCardNo = local[r].arrivalCardNo
                 /\ lookups'[r] = lookups[r]
            /\ answer = PGRST116 =>
                 /\ local'[r].attempts = local[r].attempts
                 /\ local'[r].isUnique \/ aborted
            /\ answer # PGRST116 =>
                 \/ aborted
                 \/ local'[r].attempts = local[r].attempts + 1
            /\ aborted =>
                 /\ pc'[r] = "done"
                 /\ pending'[r] = {}
                 /\ lookups'[r] = lookups[r]
                 /\ local'[r] = local[r]
                 /\ completed'[r] = {"validate", "profile", "travel"}
                 /\ store' = store
                 /\ NothingRendered(r)']_vars

\* C6 witness: a lookup failed with another error after nine taken candidates.
C6_Witness ==
  \E r \in Reqs :
    /\ Failed500(r, << VerifyPrefix, StoreErrorText >>)
    /\ local[r].attempts = 9 /\ lookups[r] = 10

\* C7: the steps of a request start in the order validate, profile insert,
\* travel insert, lookups, render, upload, entry_form insert: a step starts
\* only when every earlier step completed, at most one call is outstanding,
\* no step is outstanding once a later one started, a completed step stays
\* completed, and the success response follows the completion of all.
C7_StepOrder ==
  [][\A r \in Reqs :
       /\ Cardinality(pending'[r]) <= 1
       /\ pending'[r] = (IF pc'[r] \in Steps THEN {pc'[r]} ELSE {})
       /\ pending'[r] \cap completed'[r] = {}
       /\ \A s \in pending'[r] \cup completed'[r] : Before(s) \subseteq completed'[r]
       /\ \A s \in pending'[r] : After(s) \cap completed'[r] = {}
       /\ completed[r] \subseteq completed'[r]
       /\ (res'[r] # << >> /\ res'[r][1].status = 200) => completed'[r] = Steps]_vars

\* C7 witness: a request completed every step and was answered with success.
C7_Witness ==
  \E r \in Reqs :
    /\ Responded(r) /\ Response(r).status = 200
    /\ completed[r] = Steps /\ pending[r] = {}
    /\ local[r].attempts >= 1

\* the step request r failed at: the first it did not complete
FailedStep(r) ==
  StepOrder[CHOOSE i \in DOMAIN StepOrder :
              /\ StepOrder[i] \notin completed[r]
              /\ \A j \in 1..(i - 1) : StepOrder[j] \in completed[r]]

\* the error.message of a failure of `step`
MessagesOf(step) ==
  CASE step \in {"profile", "travel"} -> {<< StoreErrorText >>}
    [] step = "lookup" -> {<< VerifyPrefix, StoreErrorText >>, << ExhaustedText >>}
    [] step \in {"qr_update", "qr_buffer", "doc_end"} -> {<< RenderErrorText >>}
    [] step = "upload" -> {<< UploadPrefix, StoreErrorText >>, << UploadPrefix, ObjectExistsText >>}
    [] step = "entry" -> {<< InsertPrefix, StoreErrorText >>, << InsertPrefix, DuplicateKeyText >>}

\* C8: a request that passed validation and failed at a later step has one
\* response, a 500 with success false whose message carries the text of the
\* error of that step, and no call of it is outstanding or follows.
C8_FailureIsTerminal ==
  \A r \in Reqs :
    (pc[r] = "done" /\ "validate" \in completed[r] /\ "entry" \notin completed[r]) =>
      /\ Len(res[r]) = 1
      /\ Response(r).status = 500
      /\ Response(r).success = FALSE
      /\ Response(r).keys = {"success", "message"}
      /\ Response(r).message \in MessagesOf(FailedStep(r))
      /\ pending[r] = {}
      /\ After(FailedStep(r)) \cap completed[r] = {}

\* C8 witness: a request failed at its upload and was answered 500.
C8_Witness ==
  \E r \in Reqs :
    /\ pc[r] = "done" /\ FailedStep(r) = "upload"
    /\ Failed500(r, << UploadPrefix, ObjectExistsText >>)

IsPrefix(s, t) == Len(s) <= Len(t) /\ \A i \in DOMAIN s : s[i] = t[i]

\* C9: no step removes or changes a row or an object, and what the completed
\* steps of a request wrote is present after the request failed.
C9_AppendOnly ==
  [][/\ IsPrefix(profiles, profiles')
     /\ IsPrefix(travel_information, travel_information')
     /\ IsPrefix(entry_form, entry_form')
     /\ pdfs \subseteq pdfs'
     /\ \A r \in Reqs :
          (pc'[r] = "done" /\ "entry" \notin completed'[r]) =>
            /\ "profile" \in completed'[r] =>
                 \E i \in DOMAIN profiles' : profiles'[i] = local'[r].profileData[1]
            /\ "travel" \in completed'[r] =>
                 \E i \in DOMAIN travel_information' :
                   travel_information'[i] = local'[r].trData[1]
            /\ "upload" \in completed'[r] =>
                 \E o \in pdfs' : /\ o.name = FileName(local'[r].uniqueId)
                                  /\ o.body = local'[r].chunks]_vars

\* C9 witness: the entry_form insert of a request failed, and its profile
\* row, its travel row and its uploaded object are stored.
C9_Witness ==
  \E r \in Reqs :
    /\ Failed500(r, << InsertPrefix, StoreErrorText >>)
    /\ profiles[Len(profiles)] = local[r].profileData[1]
    /\ travel_information[Len(travel_information)] = local[r].trData[1]
    /\ \E o \in pdfs : o.name = FileName(local[r].uniqueId)

\* C9 witness: the travel insert of a request failed and its profile row is
\* stored.
C9_WitnessTravel ==
  \E r \in Reqs :
    /\ pc[r] = "done" /\ completed[r] = {"validate", "profile"}
    /\ profiles[Len(profiles)] = local[r].profileData[1]

\* C10: a request is answered with success true exactly when its entry_form
\* insert succeeded, that is when entry_form holds a row of the request; the
\* row's profile_id and tr_id are the ids of the rows the request's profile
\* and travel inserts returned.
C10_EntryIsSuccessSignal ==
  \A r \in Reqs :
    pc[r] = "done" =>
      LET succeeded == Len(res[r]) = 1 /\ Response(r).success = TRUE
          rows == IF local[r].profileData = << >> THEN {}
                  ELSE {i \in DOMAIN entry_form :
                          entry_form[i].profile_id = local[r].profileData[1].id}
      IN /\ succeeded <=> "entry" \in completed[r]
         /\ succeeded <=> rows # {}
         /\ succeeded =>
              /\ Response(r).status = 200
              /\ rows = {Len(entry_form)}
              /\ Response(r).entry = << entry_form[Len(entry_form)] >>
              /\ entry_form[Len(entry_form)].profile_id = local[r].profileData[1].id
              /\ entry_form[Len(entry_form)].tr_id = local[r].trData[1].id
              /\ profiles[local[r].profileData[1].id] = local[r].profileData[1]
              /\ travel_information[local[r].trData[1].id] = local[r].trData[1]
              /\ Response(r).profile = local[r].profileData
              /\ Response(r).travel = local[r].trData

\* C10 witness: a request succeeded whose profile row and travel row have
\* different ids.
C10_Witness ==
  \E r \in Reqs :
    /\ Responded(r) /\ Response(r).success = TRUE
    /\ local[r].profileData[1].id # local[r].trData[1].id
    /\ entry_form[Len(entry_form)].qrcode_data = local[r].uniqueId

\* the chunks of `chunks` of the kinds `kinds`
ChunksOf(chunks, kinds) == SelectSeq(chunks, LAMBDA c : c.kind \in kinds)

\* C11: the document identifier of a request, once drawn, never changes; on
\* success it is the payload of the QR codes, the stem of the object's key,
\* the row's qrcode_data and the response's uniqueId, and the response's
\* arrivalCardNo is the row's arrival_card_no and the number printed in the
\* document, the candidate drawn last.
C11_IdentifierConsistency ==
  [][\A r \in Reqs :
       /\ local[r].uniqueId # 0 => local'[r].uniqueId = local[r].uniqueId
       /\ (res'[r] # << >> /\ res'[r][1].success) =>
            LET id == local'[r].uniqueId
                row == entry_form'[Len(entry_form')]
                response == res'[r][1]
                qrs == ChunksOf(local'[r].chunks, {"qrUpdate", "qrBuffer"})
                printed == ChunksOf(local'[r].chunks, {"cardNo"})
            IN /\ id \in Uuids
               /\ response.uniqueId = id
               /\ row.qrcode_data = id
               /\ Len(qrs) = 2 /\ \A i \in DOMAIN qrs : qrs[i].id = id
               /\ \E o \in pdfs' : o.name = FileName(id) /\ o.body = local'[r].chunks
               /\ response.pdfUrl = PublicUrl(FileName(id))
               /\ row.filepath = PublicUrl(FileName(id))
               /\ response.arrivalCardNo = local'[r].arrivalCardNo
               /\ row.arrival_card_no = local'[r].arrivalCardNo
               /\ Len(printed) = 1
               /\ printed[1].text = local'[r].arrivalCardNo]_vars

\* C11 witness: a request succeeded after a retry of the allocator.
C11_Witness ==
  \E r \in Reqs :
    /\ Responded(r) /\ Response(r).success
    /\ local[r].attempts >= 1
    /\ Response(r).uniqueId = local[r].uniqueId
    /\ entry_form[Len(entry_form)].qrcode_data = local[r].uniqueId

\* C12: an upload under a key that is already stored is rejected: the bucket
\* is unchanged, the request ends with a 500 and no entry_form row is
\* inserted for it; no key is ever stored twice.
C12_UploadNeverOverwrites ==
  [][\A r \in Reqs :
       /\ (pc[r] = "upload" /\ \E o \in pdfs : o.name = FileName(local[r].uniqueId)) =>
            /\ pdfs' = pdfs
            /\ entry_form' = entry_form
            /\ pc'[r] = "done"
            /\ Len(res'[r]) = 1 /\ res'[r][1].status = 500
            /\ completed'[r] \cap {"upload", "entry"} = {}
            /\ pending'[r] = {}
       /\ \A o, u \in pdfs' : o.name = u.name => o = u]_vars

\* C12 witness: an upload was rejected because its key was stored already.
C12_Witness ==
  \E r \in Reqs :
    /\ Failed500(r, << UploadPrefix, ObjectExistsText >>)
    /\ \E o \in pdfs : o.name = FileName(local[r].uniqueId) /\ o.body # local[r].chunks

\* C13: a request calls the profile insert, the travel_information insert,
\* the upload and the entry_form insert at most once each, and the uniqueness
\* lookup at most 10 times.
C13_NoRetries ==
  \A r \in Reqs :
    /\ \A step \in {"profile", "travel", "upload", "entry"} : callCount[r][step] <= 1
    /\ callCount[r]["lookup"] <= 10
    /\ callCount[r]["lookup"] = lookups[r]
    /\ \A step \in DOMAIN callCount[r] :
         /\ step \in completed[r] \cup pending[r] => callCount[r][step] >= 1
         /\ callCount[r][step] = 0 => step \notin completed[r] \cup pending[r]

\* C13 witness: a request made ten lookups and every other call once.
C13_Witness ==
  \E r \in Reqs :
    /\ callCount[r]["lookup"] = 10
    /\ \A step \in {"profile", "travel", "upload", "entry"} : callCount[r][step] = 1
    /\ pc[r] = "done"

\* C15: every stored profile row has a non-empty family_name, first_name and
\* passport_no, and every stored travel_information row lists at least one
\* visited country.
C15_StoredRowsValid ==
  /\ \A i \in DOMAIN profiles : \A k \in NonEmptyPersonal :
       /\ profiles[i].data[k].t = "string"
       /\ profiles[i].data[k].s # ""
  /\ \A i \in DOMAIN travel_information :
       /\ Len(travel_information[i].countries_visited) >= 1
       /\ \A j \in DOMAIN travel_information[i].countries_visited :
            travel_information[i].countries_visited[j].t = "string"

\* C15 witness: a profile row with an empty occupation and a travel row are
\* stored.
C15_Witness ==
  /\ \E i \in DOMAIN profiles : profiles[i].data["occupation"].s = ""
  /\ travel_information # << >>

(***************************************************************************)
(* SpecDraw: the allocator's draw, for each value of the random source.    *)
(***************************************************************************)
InitDraw ==
  /\ profiles = << >>
  /\ travel_information = << >>
  /\ entry_form = << >>
  /\ pdfs = {}
  /\ uniqueConstraint \in BOOLEAN
  /\ pc = [r \in Reqs |-> "idle"]
  /\ body = [r \in Reqs |-> NoBody]
  /\ local = [r \in Reqs |-> NoLocals]
  /\ lookups = [r \in Reqs |-> 0]
  /\ callCount = [r \in Reqs |-> NoCalls]
  /\ pending = [r \in Reqs |-> {}]
  /\ completed = [r \in Reqs |-> {}]
  /\ res = [r \in Reqs |-> << >>]
  /\ variant = "memory"
  /\ disk = {}
  /\ input \in 0..(RandomDen - 1)
  /\ output = << >>

\* arrivalCardNo = Math.floor(10000 + Math.random() * 90000).toString()
Draw ==
  /\ output = << >>
  /\ output' = << [value |-> CardNoValue(input),
                   digits |-> Decimal(CardNoValue(input)),
                   text |-> DrawCardNo(input)] >>
  /\ UNCHANGED << store, uniqueConstraint, pc, body, local, lookups, callCount, pending,
                  completed, res, variant, disk, input >>

SpecDraw == InitDraw /\ [][Draw]_vars

\* C16: every candidate drawn is a decimal string of exactly 5 digits without
\* a leading zero whose value lies in 10000..99999, for every value of the
\* random source in [0, 1).
C16_FiveDigits ==
  \A i \in DOMAIN output :
    /\ output[i].value \in 10000..99999
    /\ Len(output[i].digits) = 5
    /\ output[i].digits[1] \in 1..9
    /\ \A j \in 2..5 : output[i].digits[j] \in 0..9
    /\ output[i].text = ToString(output[i].value)

\* C16 witness: the largest value of the random source drew 99999.
C16_Witness ==
  /\ input = RandomDen - 1
  /\ output # << >>
  /\ output[1].digits = << 9, 9, 9, 9, 9 >>
  /\ output[1].text = "99999"

\* C17, as claimed: a candidate is accepted only when no entry_form row has
\* its number at the time of the lookup; when one or several rows have it,
\* the candidate is not accepted.
C17_AcceptedOnlyOnNoMatch ==
  [][\A r \in Reqs :
       pc[r] = "lookup" =>
         /\ local'[r].isUnique => RowsWith(local[r].arrivalCardNo) = {}
         /\ RowsWith(local[r].arrivalCardNo) # {} =>
              \/ res'[r] = << Response500(<< VerifyPrefix, StoreErrorText >>) >>
              \/ local'[r].attempts = local[r].attempts + 1]_vars

\* C17 with at most one matching row: then the candidate is accepted only on
\* no match.
C17_AcceptedOnlyOnNoMatchSingle ==
  [][\A r \in Reqs :
       (pc[r] = "lookup" /\ Cardinality(RowsWith(local[r].arrivalCardNo)) <= 1) =>
         /\ local'[r].isUnique => RowsWith(local[r].arrivalCardNo) = {}
         /\ RowsWith(local[r].arrivalCardNo) # {} =>
              \/ res'[r] = << Response500(<< VerifyPrefix, StoreErrorText >>) >>
              \/ local'[r].attempts = local[r].attempts + 1]_vars

(***************************************************************************)
(* SpecRender: one request with any of the RenderBodies, on either handler.*)
(***************************************************************************)
InitRender ==
  /\ profiles = << >>
  /\ travel_information = << >>
  /\ entry_form = << >>
  /\ pdfs = {}
  /\ uniqueConstraint = TRUE
  /\ pc = [r \in Reqs |-> "idle"]
  /\ body = [r \in Reqs |-> NoBody]
  /\ local = [r \in Reqs |-> NoLocals]
  /\ lookups = [r \in Reqs |-> 0]
  /\ callCount = [r \in Reqs |-> NoCalls]
  /\ pending = [r \in Reqs |-> {}]
  /\ completed = [r \in Reqs |-> {}]
  /\ res = [r \in Reqs |-> << >>]
  /\ variant \in {"memory", "tempfile"}
  /\ disk = {}
  /\ input = << >>
  /\ output = << >>

NextRender ==
  \/ \E b \in RenderBodies : Create(TheRequest, b)
  \/ Handler(TheRequest)

SpecRender == InitRender /\ [][NextRender]_vars

\* the messages of the 500 responses after a collaborator call failed or no
\* free candidate was found
CollaboratorFailures == UNION {MessagesOf(step) : step \in Steps \ {"validate"}}

\* C14: a request with every required field and no optional field whose
\* collaborator calls all succeed and that finds a free candidate is answered
\* 200 with success true, a five-digit arrivalCardNo and the pdfUrl, after
\* exactly one profile row, one travel_information row, one PDF object and
\* one entry_form row were written for it; only a failed call or an exhausted
\* allocator keeps such a request from this outcome.
C14_EndToEndSuccess ==
  \A r \in Reqs :
    (pc[r] = "done" /\ body[r] = ValidBody) =>
      /\ Len(res[r]) = 1
      /\ \/ Response(r).status = 500 /\ Response(r).message \in CollaboratorFailures
         \/ /\ Response(r).status = 200
            /\ Response(r).success = TRUE
            /\ {"success", "arrivalCardNo", "pdfUrl"} \subseteq Response(r).keys
            /\ \E random \in Randoms :
                 /\ Response(r).arrivalCardNo = DrawCardNo(random)
                 /\ Len(Decimal(CardNoValue(random))) = 5
            /\ Response(r).pdfUrl = PublicUrl(FileName(local[r].uniqueId))
            /\ \A step \in {"profile", "travel", "upload", "entry"} : callCount[r][step] = 1
            /\ local[r].profileData = << profiles[Len(profiles)] >>
            /\ local[r].trData = << travel_information[Len(travel_information)] >>
            /\ Response(r).entry = << entry_form[Len(entry_form)] >>
            /\ entry_form[Len(entry_form)].profile_id = profiles[Len(profiles)].id
            /\ entry_form[Len(entry_form)].tr_id = travel_information[Len(travel_information)].id
            /\ entry_form[Len(entry_form)].filepath = Response(r).pdfUrl
            /\ Cardinality({o \in pdfs : o.name = FileName(local[r].uniqueId)}) = 1
            /\ \A o \in pdfs :
                 o.name = FileName(local[r].uniqueId) => o.body = local[r].pdfBuffer

\* C14 witness: a request with no optional field succeeded, its visa number
\* and departure fields drawn as "-".
C14_Witness ==
  \E r \in Reqs :
    /\ pc[r] = "done" /\ body[r] = ValidBody
    /\ Responded(r) /\ Response(r).status = 200
    /\ \A i \in DOMAIN local[r].pdfBuffer :
         local[r].pdfBuffer[i].kind \in {"visa_no", "flight_vehicle_no_departure"}
           => local[r].pdfBuffer[i].text = "-"
    /\ \E i \in DOMAIN local[r].pdfBuffer : local[r].pdfBuffer[i].kind = "visa_no"

\* everything the document of request r emits, in order
Emitted(r) == << Chunk("notice", 0, ""), qrUpdate(r) >> \o PageContent(r) \o << Trailer >>

\* C18: the upload is called only after the document's end event (after the
\* write stream's finish in the temp-file handler); the buffer uploaded is
\* all the data the document emitted, in order and ending with the data
\* doc.end() writes; no object and no entry_form row is of a document that
\* lacks a part.
C18_CompleteBeforePublish ==
  \A r \in Reqs :
    /\ callCount[r]["upload"] >= 1 =>
         /\ "doc_end" \in completed[r]
         /\ local[r].pdfBuffer = local[r].chunks
         /\ local[r].pdfBuffer = Emitted(r)
    /\ "doc_end" \notin completed[r] =>
         /\ local[r].pdfBuffer = << >>
         /\ callCount[r]["upload"] = 0
         /\ \A o \in pdfs : o.name # FileName(local[r].uniqueId) \/ local[r].uniqueId = 0
    /\ \A o \in pdfs :
         o.name = FileName(local[r].uniqueId) =>
           /\ "upload" \in completed[r]
           /\ o.body = Emitted(r)
    /\ \A i \in DOMAIN entry_form :
         entry_form[i].qrcode_data = local[r].uniqueId =>
           \E o \in pdfs : /\ PublicUrl(o.name) = entry_form[i].filepath
                           /\ o.body = Emitted(r)

\* C18 witness: a request of the memory handler succeeded; the object
\* uploaded and linked holds the thirteen chunks of its document, the last one
\* included.
C18_Witness ==
  \E r \in Reqs :
    /\ variant = "memory"
    /\ "entry" \in completed[r]
    /\ \E o \in pdfs : o.name = FileName(local[r].uniqueId) /\ o.body[Len(o.body)] = Trailer
    /\ Len(Emitted(r)) = 13

\* C18 witness of the temp-file handler: the file was written whole, read,
\* uploaded and linked.
C18_WitnessTempFile ==
  \E r \in Reqs :
    /\ variant = "tempfile"
    /\ "entry" \in completed[r]
    /\ \E o \in pdfs : o.name = FileName(local[r].uniqueId) /\ o.body[Len(o.body)] = Trailer

\* Every collaborator call of the one request returns: a step of the
\* handler that can be taken is taken.  The loop of the allocator is bounded,
\* so weak fairness is enough.
SpecOneFair == InitOne /\ [][NextOne]_vars /\ WF_vars(Handler(TheRequest))

\* C19: a request that arrived is answered, once its calls have returned,
\* with one response of status 400, 200 or 500; a response sent is never
\* followed by another, also after the await of the document's end event.
C19_ExactlyOneResponse ==
  /\ [][\A r \in Reqs : res[r] # << >> => res'[r] = res[r]]_vars
  /\ [](\A r \in Reqs :
         /\ Len(res[r]) <= 1
         /\ pc[r] = "done" => Len(res[r]) = 1 /\ Response(r).status \in {400, 200, 500})
  /\ \A r \in Reqs : (pc[r] # "idle") ~> (pc[r] = "done" /\ Len(res[r]) = 1)

\* C19 witness: a request that awaited the end event of its document was
\* answered once.
C19_Witness ==
  \E r \in Reqs :
    /\ "doc_end" \in completed[r] /\ local[r].listening
    /\ pc[r] = "done" /\ Len(res[r]) = 1

\* the visa number and the departure fields of the validated data
DefaultedFields(r) ==
  [visa_no |-> validationPI(r).data.visa_no,
   date_of_departure |-> validationTR(r).data.date_of_departure,
   mode_of_travel_departure |-> validationTR(r).data.mode_of_travel_departure,
   mode_of_transport_departure |-> validationTR(r).data.mode_of_transport_departure,
   flight_vehicle_no_departure |-> validationTR(r).data.flight_vehicle_no_departure]

AbsentOrNull(v) == v.t # "string"
Falsy(v) == v.t # "string" \/ v.s = ""

\* the request was valid and its handler went past the drawing of the page:
\* the fields are drawn without a TypeError, a missing one as "-" and a
\* present one as its upper-cased or formatted value; `emptyToo` says
\* whether an empty string counts as missing
FieldsDefault(r, emptyToo) ==
  ("qr_update" \in completed[r] /\ pc[r] # "qr_buffer") =>
    /\ ~Failed500(r, << TypeErrorText >>)
    /\ "qr_buffer" \in completed[r] =>
         \A k \in DOMAIN DefaultedFields(r) :
           LET v == DefaultedFields(r)[k]
               drawn == ChunksOf(local[r].chunks, {k})
           IN /\ Len(drawn) = 1
              /\ drawn[1].text = IF (IF emptyToo THEN Falsy(v) ELSE AbsentOrNull(v)) THEN "-"
                                 ELSE IF k = "date_of_departure" THEN "2025/3/9"
                                 ELSE toUpperCase(v.s)


\* C20, as claimed: for a valid request, whichever of visa_no and the
\* departure fields are absent or null, the drawing completes without an
\* error of the missing field, each missing field is drawn as "-" and each
\* present one as its upper-cased or formatted value.
C20_FieldsDefaultToDash == \A r \in Reqs : FieldsDefault(r, FALSE)

\* C20 for the memory handler, an empty string counted as missing: holds.
C20_FieldsDefaultToDashMemory ==
  \A r \in Reqs : variant = "memory" => FieldsDefault(r, TRUE)

\* C20 for the temp-file handler: a request whose visa_no and three string
\* departure fields are all present is drawn as claimed.
C20_FieldsDefaultToDashTempFile ==
  \A r \in Reqs :
    (variant = "tempfile" /\ pc[r] # "idle"
       /\ ~FieldsThrow(validationPI(r).data, validationTR(r).data)) =>
      FieldsDefault(r, TRUE)

\* the state that refutes C20: a valid request without visa_no, sent to the
\* temp-file handler, was answered 500 with the TypeError's message after its
\* profile and travel rows were stored.
C20_MissingFieldFails ==
  \E r \in Reqs :
    /\ variant = "tempfile"
    /\ validationPI(r).success /\ validationTR(r).success
    /\ validationPI(r).data.visa_no = Undef
    /\ Failed500(r, << TypeErrorText >>)
    /\ local[r].profileData # << >> /\ local[r].trData # << >>

C21_WitnessPassing ==
  \E r \in Reqs :
    /\ Responded(r) /\ Response(r).status = 400
    /\ Response(r).errors.personalInfo["passport_no"] # << >>
    /\ Response(r).errors.tripInfo = NoFieldErrors(tripAccommodationSchema)
    /\ Response(r).errors.health = NoHealthErrors

\* the state of request r in the process: its body, its position, its local
\* variables and counters, its response
InProcess(r) ==
  << body[r], pc[r], local[r], lookups[r], callCount[r], pending[r], completed[r], res[r] >>

\* C22: a step changes the in-process state of at most one request; the
\* attempts of a request grow only in its own lookup step, by one, when its
\* own candidate matched a row, and a request is refused for exhaustion only
\* after its own ten matches.
C22_NoSharedInProcessState ==
  [][/\ \A r, q \in Reqs :
          (r # q /\ InProcess(r)' # InProcess(r)) => InProcess(q)' = InProcess(q)
     /\ \A r \in Reqs :
          /\ local'[r].attempts # local[r].attempts =>
               /\ pc[r] = "lookup"
               /\ local'[r].attempts = local[r].attempts + 1
               /\ RowsWith(local[r].arrivalCardNo) # {}
          /\ (pc[r] # "done" /\ Failed500(r, << ExhaustedText >>)') =>
               /\ local'[r].attempts = maxAttempts
               /\ lookups[r] = maxAttempts
          /\ local[r].attempts <= maxAttempts]_vars

\* C22 witness: a request used up its ten attempts on the number of another
\* request that needed one lookup.
C22_Witness ==
  \E r, q \in Reqs :
    /\ r # q
    /\ Failed500(q, << ExhaustedText >>) /\ local[q].attempts = maxAttempts
    /\ Responded(r) /\ Response(r).status = 200
    /\ local[r].attempts = 0 /\ lookups[r] = 1

\* C22 witness of two requests in flight together, each with its own
\* identifier, candidate and chunks.
C22_WitnessInFlight ==
  \E r, q \in Reqs :
    /\ r # q
    /\ pc[q] = "lookup" /\ pc[r] = "upload"
    /\ local[q].uniqueId # local[r].uniqueId
    /\ local[q].arrivalCardNo # local[r].arrivalCardNo
    /\ local[q].chunks = << >> /\ local[r].chunks # << >>

\* valid bodies with an undeclared key, with optional fields absent, null,
\* empty or present, and with lists of countries in either order
StoredPersonal ==
  {ValidPersonal,
   Object([ValidPersonal.f EXCEPT ![UndeclaredKey] = Str("x")]),
   Object([ValidPersonal.f EXCEPT !["middle_name"] = Str("x")]),
   Object([ValidPersonal.f EXCEPT !["visa_no"] = Str("")])}
StoredTrip ==
  {ValidTrip,
   Object([ValidTrip.f EXCEPT ![UndeclaredKey] = Str("x")]),
   Object([ValidTrip.f EXCEPT !["date_of_departure"] = Null]),
   Object([ValidTrip.f EXCEPT !["type_other"] = Str("x")])}
StoredHealth ==
  {ValidHealth, Countries(<< Str("US"), Str("TH") >>), Countries(<< Str("TH"), Str("US") >>)}
StoredBodies == [personalInfo : StoredPersonal, tripInfo : StoredTrip, health : StoredHealth]

\* one request with such a body against an empty store
NextStored ==
  \/ \E b \in StoredBodies : Create(TheRequest, b)
  \/ Handler(TheRequest)

SpecStored == Init /\ [][NextStored]_vars

\* the keys of a section's input that have a value
Present(section) == {k \in DOMAIN section.f : section.f[k] # Undef}
\* the fields of a stored row that have a value
Stored(data) == {k \in DOMAIN data : data[k] # Undef}

\* C23: the profile row of a request has exactly the personalInfoSchema
\* fields present in its input, with the input's values, and its
\* travel_information row exactly the tripAccommodationSchema fields present
\* in its input plus countries_visited in the submitted order; no undeclared
\* key is written, and an absent optional field is absent from the row, not
\* an empty string.
C23_OnlyNormalizedPersisted ==
  \A r \in Reqs :
    /\ local[r].profileData # << >> =>
         LET row == local[r].profileData[1]
             section == body[r].personalInfo
         IN /\ profiles[row.id] = row
            /\ DOMAIN row = {"id", "data"}
            /\ Stored(row.data) = Present(section) \cap PersonalFields
            /\ UndeclaredKey \notin DOMAIN row.data
            /\ \A k \in Stored(row.data) : row.data[k] = section.f[k]
            /\ \A k \in PersonalFields :
                 section.f[k] = Undef => row.data[k] # Str("")
    /\ local[r].trData # << >> =>
         LET row == local[r].trData[1]
             section == body[r].tripInfo
         IN /\ travel_information[row.id] = row
            /\ DOMAIN row = {"id", "data", "countries_visited"}
            /\ Stored(row.data) = Present(section) \cap TripFields
            /\ UndeclaredKey \notin DOMAIN row.data
            /\ \A k \in Stored(row.data) : row.data[k] = section.f[k]
            /\ \A k \in TripFields :
                 section.f[k] = Undef => row.data[k] # Str("")
            /\ row.countries_visited = body[r].health.countries_visited.a

\* C23 witness: a request that sent an undeclared key in both sections, and
\* two countries, has its two rows stored without the key and with the
\* countries in its order.
C23_Witness ==
  \E r \in Reqs :
    /\ body[r].personalInfo.f[UndeclaredKey] = Str("x")
    /\ body[r].tripInfo.f[UndeclaredKey] = Str("x")
    /\ body[r].health.countries_visited.a = << Str("TH"), Str("US") >>
    /\ local[r].profileData # << >> /\ local[r].trData # << >>
    /\ travel_information[local[r].trData[1].id].countries_visited
         = << Str("TH"), Str("US") >>
    /\ profiles[local[r].profileData[1].id].data["middle_name"] = Undef

\* C24, as claimed: the first QR code of the document encodes the
\* update-instructions payload and the second one the document identifier;
\* the payloads of the two codes of a request differ.
C24_TwoQrPayloads ==
  \A r \in Reqs :
    "qr_buffer" \in completed[r] =>
      LET first == ChunksOf(local[r].chunks, {"qrUpdate"})
          second == ChunksOf(local[r].chunks, {"qrBuffer"})
      IN /\ Len(first) = 1 /\ Len(second) = 1
         /\ second[1].id = local[r].uniqueId
         /\ first[1].text = UpdateUrl
         /\ first[1].id # second[1].id

\* the state that refutes C24: the two codes of a document of the memory
\* handler both encode the document identifier.
C24_SamePayload ==
  \E r \in Reqs :
    /\ variant = "memory" /\ "qr_buffer" \in completed[r]
    /\ \E i, j \in DOMAIN local[r].chunks :
         /\ local[r].chunks[i].kind = "qrUpdate" /\ local[r].chunks[j].kind = "qrBuffer"
         /\ local[r].chunks[i].id = local[r].uniqueId
         /\ local[r].chunks[j].id = local[r].uniqueId
         /\ local[r].chunks[i].text = local[r].chunks[j].text

\* C24 for the second code alone: it encodes the document identifier.
C24_SecondQrIsIdentifier ==
  \A r \in Reqs :
    "qr_buffer" \in completed[r] =>
      LET second == ChunksOf(local[r].chunks, {"qrBuffer"})
      IN Len(second) = 1 /\ second[1].id = local[r].uniqueId

\* the countries the travel_information row of request r lists
CountriesOf(r) == local[r].trData[1].countries_visited

\* the values drawn into the document of request r, in order
ValuesDrawn(r) == [i \in DOMAIN local[r].pdfBuffer |-> local[r].pdfBuffer[i].text]

\* C25, as claimed: the document of a successful request shows each country
\* of health.countries_visited among the values drawn, in the submitted
\* order.
C25_CountriesDrawn ==
  \A r \in Reqs :
    (Responded(r) /\ Response(r).status = 200) =>
      \E at \in [DOMAIN CountriesOf(r) -> DOMAIN ValuesDrawn(r)] :
        /\ \A i \in DOMAIN CountriesOf(r) : ValuesDrawn(r)[at[i]] = CountriesOf(r)[i].s
        /\ \A i, j \in DOMAIN CountriesOf(r) : i < j => at[i] < at[j]

\* the state that refutes C25: a request succeeded, its row lists two
\* countries and no value drawn into its document is one of them.
C25_CountriesNotDrawn ==
  \E r \in Reqs :
    /\ Responded(r) /\ Response(r).status = 200
    /\ Len(CountriesOf(r)) = 2
    /\ local[r].pdfBuffer[Len(local[r].pdfBuffer)] = Trailer
    /\ local[r].pdfBuffer[Len(local[r].pdfBuffer) - 1].kind = "address"
    /\ \A i \in DOMAIN ValuesDrawn(r), j \in DOMAIN CountriesOf(r) :
         ValuesDrawn(r)[i] # CountriesOf(r)[j].s

\* the durable writes of a request, in the order of the handler
WriteOrder == << "profile", "travel", "upload", "entry" >>
\* the writes request r has made
Written(r) == {i \in DOMAIN WriteOrder : WriteOrder[i] \in completed[r]}
\* the requests that made write w
Writers(w) == {r \in Reqs : w \in completed[r]}

\* C26: the writes a request has made are a prefix of profile row,
\* travel_information row, PDF object, entry_form row; the store holds one
\* row or object per write made, so there are at least as many profile rows
\* as travel_information rows, as PDF objects, as entry_form rows.
C26_WritesArePrefix ==
  /\ \A r \in Reqs : \E n \in 0..Len(WriteOrder) : Written(r) = 1..n
  /\ Len(profiles) = Cardinality(Writers("profile"))
  /\ Len(travel_information) = Cardinality(Writers("travel"))
  /\ Cardinality(pdfs) = Cardinality(Writers("upload"))
  /\ Len(entry_form) = Cardinality(Writers("entry"))
  /\ Len(profiles) >= Len(travel_information)
  /\ Len(travel_information) >= Cardinality(pdfs)
  /\ Cardinality(pdfs) >= Len(entry_form)

\* C26 witness: of two interleaved requests one stopped after its travel
\* row and the other after its upload: two profile rows, two
\* travel_information rows, one object, no entry_form row.
C26_Witness ==
  /\ \E r, q \in Reqs : Written(r) = 1..2 /\ Written(q) = 1..3 /\ pc[r] = "done" /\ pc[q] = "done"
  /\ Len(profiles) = 2 /\ Len(travel_information) = 2
  /\ Cardinality(pdfs) = 1 /\ Len(entry_form) = 0

\* C27: every entry_form row refers to a stored profile row, a stored
\* travel_information row and an object of the bucket whose key is its
\* qrcode_data followed by .pdf, and no two entry_form rows have the same
\* profile_id, tr_id or qrcode_data.
C27_ReferentialIntegrity ==
  /\ \A i \in DOMAIN entry_form :
       /\ \E j \in DOMAIN profiles : profiles[j].id = entry_form[i].profile_id
       /\ \E j \in DOMAIN travel_information :
            travel_information[j].id = entry_form[i].tr_id
       /\ \E o \in pdfs : o.name = FileName(entry_form[i].qrcode_data)
       /\ entry_form[i].filepath = PublicUrl(FileName(entry_form[i].qrcode_data))
  /\ \A i, j \in DOMAIN entry_form :
       i # j => /\ entry_form[i].profile_id # entry_form[j].profile_id
               /\ entry_form[i].tr_id # entry_form[j].tr_id
               /\ entry_form[i].qrcode_data # entry_form[j].qrcode_data
  /\ \A i, j \in DOMAIN profiles : i # j => profiles[i].id # profiles[j].id
  /\ \A i, j \in DOMAIN travel_information :
       i # j => travel_information[i].id # travel_information[j].id

\* C27 witness: two interleaved requests both succeeded; their rows refer
\* to different profiles, travel rows and objects.
C27_Witness ==
  /\ Len(entry_form) = 2
  /\ Cardinality(pdfs) = 2
  /\ \A r \in Reqs : Responded(r) /\ Response(r).status = 200

\* C27 witness of a collision of identifiers: two requests drew the same
\* uniqueId; the second upload was refused and only one row has it.
C27_WitnessSameId ==
  \E r, q \in Reqs :
    /\ r # q /\ local[r].uniqueId = local[q].uniqueId /\ local[r].uniqueId # 0
    /\ Responded(r) /\ Response(r).status = 200
    /\ Failed500(q, << UploadPrefix, ObjectExistsText >>)
    /\ Len(entry_form) = 1

\* the temporary file of request r is on disk
OnDisk(files, r) == \E f \in files : f.name = FileName(local[r].uniqueId)
\* the same after the step
OnDiskNext(r) == \E f \in disk' : f.name = FileName(local'[r].uniqueId)

\* C28: in the temp-file handler the file ./pdfs/<uniqueId>.pdf of a request
\* is on disk from its creation until the upload succeeded, is removed in
\* the step in which the upload succeeded and in no other, and is gone when
\* the request inserts its entry_form row and when it responds success.
C28_TempFileRemovedBeforeEntry ==
  [][\A r \in Reqs :
       variant = "tempfile" =>
         /\ Len(entry_form') > Len(entry_form) => ~OnDisk(disk, r) /\ ~OnDiskNext(r)
         /\ (res'[r] # << >> /\ res'[r][1].status = 200) => ~OnDiskNext(r)
         /\ pc'[r] = "entry" => ~OnDiskNext(r)
         /\ pc'[r] \in {"qr_update", "qr_buffer", "doc_end", "upload"} => OnDiskNext(r)
         /\ (OnDisk(disk, r) /\ ~OnDiskNext(r)) =>
              /\ pc[r] = "upload" /\ pc'[r] = "entry"
              /\ \E o \in pdfs' \ pdfs : o.name = FileName(local[r].uniqueId)]_vars

\* C28 witness: a request of the temp-file handler succeeded; its object is
\* in the bucket and its file is no longer on disk.
C28_Witness ==
  \E r \in Reqs :
    /\ variant = "tempfile"
    /\ Responded(r) /\ Response(r).status = 200
    /\ Len(entry_form) = 1
    /\ \E o \in pdfs : o.name = FileName(local[r].uniqueId)
    /\ disk = {}

\* C28 witness of a failed upload: the file stays on disk.
C28_WitnessKept ==
  \E r \in Reqs :
    /\ variant = "tempfile"
    /\ Failed500(r, << StoreErrorText >>) /\ "doc_end" \in completed[r]
    /\ OnDisk(disk, r)

====
